---- MODULE Spec2Model ----
(***************************************************************************)
(* Audio-reactive blob visualisation (RememberAI/Alzheimers).              *)
(*                                                                         *)
(* The model follows the full sketch of src/unnamed/part_003 (lines        *)
(* 986-1999): the capture handles (audio context, microphone stream,       *)
(* analyser), the asynchronous capture setup started by p.activate, the    *)
(* per-frame signal analysis and state update of p.draw, and the           *)
(* lifecycle entry points p.activate / p.deactivate / p.cleanup.           *)
(*                                                                         *)
(* Real quantities are held in thousandths (0.1 is 100, 1.0 is 1000);      *)
(* p.lerp and p.map are computed in that fixed point, rounding toward 0.   *)
(* Platform objects are numbered in creation order: contexts[c] is the     *)
(* c-th AudioContext, streams[s] the s-th granted MediaStream; 0 is null.  *)
(***************************************************************************)
EXTENDS Integers, Sequences, FiniteSets, TLC

(***************************************************************************)
(* Bounds of the model.                                                    *)
(***************************************************************************)
\* capture setups (setupAudio runs) started in one behaviour
MaxSetups == 2
\* frames drawn in one behaviour of the lifecycle specification
MaxFrames == 1

\* frames drawn in the runs that follow the pause effect over a long silence
MaxMotionFrames == 22

(***************************************************************************)
(* Program constants (thousandths where the source has a fraction).        *)
(***************************************************************************)
fftSize == 512
sampleRate == 44100
audioLerpFactor == 100
freqSpreadLerpFactor == 30
binActivationThreshold == 10
pitchProxyLerpFactor == 60
pitchChangeLerpFactor == 50
pitchMinFreq == 80
pitchMaxFreq == 500
midHistoryLength == 30
volumeHistoryLength == 60
ahaThresholdMultiplier == 1400
ahaMinimumLevel == 300
ahaDuration == 15
flashDecay == 100
audioThreshold == 90
activeStateLerpFactor == 70
silenceThreshold == 30
framesForBreathing == 90
framesForPause == 20
pauseEffectDuration == 12
pauseEffectDecay == 60
inhaleSpeed == 150
focusFactorLerp == 20
melodyFactorLerp == 25
emphasisFactorLerp == 50
activeMultiplierLerpFactor == 80
maxPeakExtensionFactor == 1100
breathingAmount == 25
maxInhaleFactor == 80
wavinessInfluenceLerpFactor == 12
textureIntensityLerpFactor == 12
passiveDeformationLerpFactor == 8
\* the deformation amounts are small: they are held in millionths
basePassiveDeformationAmount == 40000
maxPassiveDeformationBoost == 20000
baseTextureIntensity == 20000
maxTextureIntensity == 80000
maxWavinessInfluence == 150000
\* the noise-time speeds are small: they are held in millionths per frame
internalTextureSpeed == 300
\* hues are held in degrees
baseHue == 210
hueShiftRange == 15
hueLerpFactor == 10

(***************************************************************************)
(* Arithmetic helpers: p5's lerp, map and constrain in fixed point.        *)
(***************************************************************************)
Abs(x) == IF x < 0 THEN -x ELSE x

Min2(a, b) == IF a < b THEN a ELSE b

Max2(a, b) == IF a > b THEN a ELSE b

\* x / d rounded toward zero, for either sign of x and d (d # 0)
TruncDiv(x, d) ==
  IF (x >= 0) = (d > 0) THEN Abs(x) \div Abs(d) ELSE -(Abs(x) \div Abs(d))

\* p.lerp(a, b, t) = t * (b - a) + a, t in thousandths
Lerp(a, b, t) == a + TruncDiv((b - a) * t, 1000)

\* a value passed on without being clamped
Unconstrained(n, low, high) == n

\* p.constrain(n, low, high) = Math.max(Math.min(n, high), low)
Constrain(n, low, high) == Max2(Min2(n, high), low)

\* p.map(n, start1, stop1, start2, stop2) without the clamp to the target range
MapUnclamped(n, start1, stop1, start2, stop2) ==
  start2 + TruncDiv((n - start1) * (stop2 - start2), stop1 - start1)

\* p.map(n, start1, stop1, start2, stop2, true)
MapClamped(n, start1, stop1, start2, stop2) ==
  Constrain(start2 + TruncDiv((n - start1) * (stop2 - start2), stop1 - start1),
            Min2(start2, stop2), Max2(start2, stop2))

RECURSIVE SumSeq(_)
SumSeq(s) == IF s = <<>> THEN 0 ELSE Head(s) + SumSeq(Tail(s))

\* history.push(v) with no eviction
PushHistoryUnbounded(h, v, length) == Append(h, v)

\* history.push(v); if (history.length > length) history.shift()
PushHistory(h, v, length) ==
  LET pushed == Append(h, v)
  IN  IF Len(pushed) > length THEN Tail(pushed) ELSE pushed

\* history.reduce((a, b) => a + b, 0) / history.length
Average(h) == SumSeq(h) \div Len(h)

(***************************************************************************)
(* Frequency analysis of one analyser snapshot (updateAudio, the part      *)
(* that reads frequencyData only).                                         *)
(***************************************************************************)
\* analyser.frequencyBinCount
fbc == fftSize \div 2

nyquist == sampleRate \div 2

\* Math.max(1, Math.floor(pitchMinFreq / binWidth)), binWidth = nyquist / (fftSize / 2)
pitchMinIndex == Max2(1, (pitchMinFreq * (fftSize \div 2)) \div nyquist)

\* Math.min(fftSize / 2 - 1, Math.ceil(pitchMaxFreq / binWidth))
pitchMaxIndex ==
  Min2(fftSize \div 2 - 1, (pitchMaxFreq * (fftSize \div 2) + nyquist - 1) \div nyquist)

midEndFreq == 4000
trebleStartFreq == 4000

\* Math.min(fbc - 1, Math.ceil(midEndFreq / (nyquist / fbc)))
midEndIndex == Min2(fbc - 1, (midEndFreq * fbc + nyquist - 1) \div nyquist)

\* Math.min(fbc - 1, Math.floor(trebleStartFreq / (nyquist / fbc)))
trebleStartIndex == Min2(fbc - 1, (trebleStartFreq * fbc) \div nyquist)

RECURSIVE RangeSum(_, _, _)
RangeSum(data, lo, hi) ==
  IF lo > hi THEN 0
  ELSE IF lo = hi THEN data[lo]
  ELSE RangeSum(data, lo, (lo + hi) \div 2) + RangeSum(data, (lo + hi) \div 2 + 1, hi)

\* the peak search of updateAudio: <<maxAmp, peakIndex>> after bins i..pitchMaxIndex
RECURSIVE PeakScan(_, _, _, _)
PeakScan(data, i, maxAmp, peakIndex) ==
  IF i > pitchMaxIndex THEN <<maxAmp, peakIndex>>
  ELSE IF data[i] > maxAmp THEN PeakScan(data, i + 1, data[i], i)
       ELSE PeakScan(data, i + 1, maxAmp, peakIndex)

\* the instantaneous values updateAudio derives from frequencyData
AnalyseFrequencyData(data) ==
  LET peak == PeakScan(data, pitchMinIndex, 0, -1)
      oSum == RangeSum(data, 0, fbc - 1)
      mSum == RangeSum(data, 0, midEndIndex)
      tSum == RangeSum(data, Max2(midEndIndex + 1, trebleStartIndex), fbc - 1)
      activeBinCount == Cardinality({i \in 0..(fbc - 1) : data[i] > binActivationThreshold})
      numMidBins == midEndIndex + 1
      numTrebleBins == fbc - trebleStartIndex
      nO == IF fbc > 0 THEN (oSum * 1000) \div fbc ELSE 0
      nM == IF numMidBins > 0 THEN (mSum * 1000) \div numMidBins ELSE 0
      nT == IF numTrebleBins > 0 THEN (tSum * 1000) \div numTrebleBins ELSE 0
  IN  [ targetPitchProxy |->
          IF peak[2] # -1 /\ peak[1] * 10 > binActivationThreshold * 15
          THEN MapClamped(peak[2], pitchMinIndex, pitchMaxIndex, 0, 1000)
          ELSE 500,
        normO |-> MapClamped(nO, 0, 160000, 0, 1000),
        normM |-> MapClamped(nM, 0, 160000, 0, 1000),
        normT |-> MapClamped(nT, 0, 160000, 0, 1000),
        targetSpread |-> IF fbc > 0 THEN (activeBinCount * 1000) \div fbc ELSE 0 ]

(***************************************************************************)
(* The analyser snapshots the microphone can deliver in a frame: a flat    *)
(* level `low` below 4 kHz, `high` above, and one peak bin (fbc = none).   *)
(***************************************************************************)
Snapshot(low, high, peakBin) ==
  [i \in 0..(fbc - 1) |->
     IF i = peakBin THEN 255 ELSE IF i * nyquist < 4000 * fbc THEN low ELSE high]

Snapshots ==
  [ silence |-> Snapshot(0, 0, fbc),
    voice   |-> Snapshot(120, 12, 4),
    loud    |-> Snapshot(255, 255, fbc) ]

\* analyser.getByteFrequencyData(frequencyData), analysed
Analysis == [n \in DOMAIN Snapshots |-> AnalyseFrequencyData(Snapshots[n])]

(***************************************************************************)
(* The signal and animation fields (the sketch's `let` bindings), with the *)
(* canvas size p.width, p.height and whether p5's draw loop is scheduled.  *)
(***************************************************************************)
Zeros(n) == [i \in 1..n |-> 0]

\* the fields after p.setup in a 500 x 500 container; internalTextureTime is
\* held in millionths, less the random offset it starts from
InitialFields ==
  [ smoothedOverallLevel |-> 0, smoothedMidLevel |-> 0, smoothedTrebleLevel |-> 0,
    frequencySpread |-> 0, pitchProxy |-> 500, lastPitchProxy |-> 500,
    pitchChangeRate |-> 0,
    midHistory |-> Zeros(midHistoryLength), sustainedMidLevel |-> 0,
    volumeHistory |-> Zeros(volumeHistoryLength), averageVolume |-> 0,
    isAhaMoment |-> FALSE, ahaTimer |-> 0, flashIntensity |-> 0,
    focusFactor |-> 0, melodyFactor |-> 0, emphasisFactor |-> 0,
    activeStateIntensity |-> 0, activePeakMultiplier |-> 1000,
    silenceFrames |-> 0, isBreathing |-> FALSE, pauseEnded |-> FALSE,
    pauseEffectTimer |-> 0, pauseEffectIntensity |-> 0, inhaleAmount |-> 0,
    currentPassiveDeformationAmount |-> 40000,
    currentActiveTextureIntensity |-> 40000,
    currentWavinessInfluence |-> 0,
    targetHue |-> baseHue * 1000000, currentHue |-> baseHue * 1000000,
    internalTextureTime |-> 0,
    canvasWidth |-> 500, canvasHeight |-> 500, baseRadius |-> 100 * 1000,
    looping |-> TRUE ]

\* an idle branch that lets the overall level drift upward
UpdateAudioIdleRising(f) ==
  [f EXCEPT !.lastPitchProxy = f.pitchProxy,
            !.smoothedOverallLevel = Lerp(@, 1000, (audioLerpFactor * 3) \div 10)]

\* updateAudio, the branch taken while capture cannot be sampled
UpdateAudioIdle(f) ==
  LET idleLerpFactor == (audioLerpFactor * 3) \div 10
      vh == PushHistory(f.volumeHistory, 0, volumeHistoryLength)
      mh == PushHistory(f.midHistory, 0, midHistoryLength)
  IN  [f EXCEPT
        !.lastPitchProxy = f.pitchProxy,
        !.smoothedOverallLevel = Lerp(@, 0, idleLerpFactor),
        !.smoothedMidLevel = Lerp(@, 0, idleLerpFactor),
        !.smoothedTrebleLevel = Lerp(@, 0, idleLerpFactor),
        !.frequencySpread = Lerp(@, 0, freqSpreadLerpFactor),
        !.volumeHistory = vh,
        !.averageVolume = Average(vh),
        !.midHistory = mh,
        !.sustainedMidLevel = Average(mh),
        !.pitchProxy = Lerp(@, 500, pitchProxyLerpFactor),
        !.pitchChangeRate = Lerp(@, 0, pitchChangeLerpFactor)]

\* updateAudio, the branch that samples the analyser; a is the analysed snapshot
UpdateAudioSampled(f, a) ==
  LET pitch == Lerp(f.pitchProxy, a.targetPitchProxy, pitchProxyLerpFactor)
      overall == Lerp(f.smoothedOverallLevel, a.normO, audioLerpFactor)
      mid == Lerp(f.smoothedMidLevel, a.normM, audioLerpFactor)
      vh == PushHistory(f.volumeHistory, overall, volumeHistoryLength)
      mh == PushHistory(f.midHistory, mid, midHistoryLength)
      avg == Average(vh)
      currentPitchChange == Abs(pitch - f.pitchProxy)
      aha == /\ ~f.isAhaMoment
             /\ overall > ahaMinimumLevel
             /\ avg > 10
             /\ overall * 1000 > avg * ahaThresholdMultiplier
  IN  [f EXCEPT
        !.lastPitchProxy = f.pitchProxy,
        !.pitchProxy = pitch,
        !.smoothedOverallLevel = overall,
        !.smoothedMidLevel = mid,
        !.smoothedTrebleLevel = Lerp(@, a.normT, audioLerpFactor),
        !.frequencySpread = Lerp(@, a.targetSpread, freqSpreadLerpFactor),
        !.volumeHistory = vh,
        !.averageVolume = avg,
        !.midHistory = mh,
        !.sustainedMidLevel = Average(mh),
        !.pitchChangeRate = Lerp(@, currentPitchChange, pitchChangeLerpFactor),
        !.isAhaMoment = IF aha THEN TRUE ELSE @,
        !.ahaTimer = IF aha THEN ahaDuration ELSE @,
        !.flashIntensity = IF aha THEN 1000 ELSE @]

\* updateAudio: capturing is isP5StateActive && audioReady && analyser && frequencyData
UpdateAudio(f, capturing, a) ==
  IF ~capturing THEN UpdateAudioIdle(f) ELSE UpdateAudioSampled(f, a)

\* updateStateAndMotion(timeDelta): the fields the shape, the pause effect and
\* the "aha" flash read; active is isP5StateActive
UpdateStateAndMotion(f, active, timeDelta) ==
  LET level == f.smoothedOverallLevel
      silent == active /\ level < silenceThreshold
      pauseEnded == ~silent /\ f.silenceFrames >= framesForPause
      silenceFrames == IF silent THEN f.silenceFrames + 1 ELSE 0
      timer0 == IF pauseEnded THEN pauseEffectDuration ELSE f.pauseEffectTimer
      intensity0 == IF pauseEnded THEN 1000 ELSE f.pauseEffectIntensity
      inhale0 == IF pauseEnded THEN -1000 ELSE f.inhaleAmount
      inhale1 == IF pauseEnded \/ inhale0 # 0 THEN Lerp(inhale0, 1000, inhaleSpeed)
                 ELSE inhale0
      reacting == active /\ level > audioThreshold
      targetFocusFactor ==
        IF reacting
        THEN (MapClamped(f.frequencySpread, 300, 700, 0, 1000)
              * MapClamped(f.pitchChangeRate, 50, 5, 0, 1000)) \div 1000
        ELSE 0
      targetMelodyFactor ==
        IF reacting THEN MapClamped(f.pitchChangeRate, 10, 100, 0, 1000) ELSE 0
      targetEmphasisFactor ==
        IF reacting
        THEN IF f.isAhaMoment THEN 1000 ELSE MapClamped(level, 500, 900, 0, 1000)
        ELSE 0
      emphasis == Lerp(f.emphasisFactor, targetEmphasisFactor, emphasisFactorLerp)
      midTrebleCombined == f.smoothedMidLevel + f.smoothedTrebleLevel
      targetMultiplier ==
        IF active /\ midTrebleCombined > audioThreshold
        THEN MapClamped((midTrebleCombined * Lerp(1000, 1200, emphasis)) \div 1000,
                        audioThreshold + 20, 900, 1000, maxPeakExtensionFactor)
        ELSE 1000
      ahaTimer == IF f.ahaTimer > 0 THEN f.ahaTimer - 1 ELSE f.ahaTimer
      focus == Lerp(f.focusFactor, targetFocusFactor, focusFactorLerp)
      melody == Lerp(f.melodyFactor, targetMelodyFactor, melodyFactorLerp)
      targetWavinessInfluence ==
        IF reacting THEN MapClamped(melody, 100, 900, 0, maxWavinessInfluence) ELSE 0
      targetTextureIntensity ==
        IF reacting
        THEN TruncDiv(MapClamped(f.frequencySpread, 100, 600, baseTextureIntensity,
                                 maxTextureIntensity) * Lerp(1000, 600, focus), 1000)
        ELSE baseTextureIntensity
      targetPassiveDeformation ==
        IF active /\ f.sustainedMidLevel * 10 > audioThreshold * 12
        THEN basePassiveDeformationAmount
             + MapClamped(f.sustainedMidLevel, (audioThreshold * 12) \div 10, 600, 0,
                          maxPassiveDeformationBoost)
        ELSE basePassiveDeformationAmount
  IN  [f EXCEPT
        !.activeStateIntensity =
           Lerp(@, IF active THEN 1000 ELSE 0, (activeStateLerpFactor * timeDelta) \div 1000),
        !.pauseEnded = pauseEnded,
        !.silenceFrames = silenceFrames,
        !.isBreathing = IF silenceFrames >= framesForBreathing THEN TRUE
                        ELSE IF silent THEN @ ELSE FALSE,
        !.pauseEffectTimer = IF timer0 > 0 THEN timer0 - 1 ELSE timer0,
        !.pauseEffectIntensity = Lerp(intensity0, 0, pauseEffectDecay),
        !.inhaleAmount = IF Abs(inhale1 - 1000) < 10 THEN 0 ELSE inhale1,
        !.focusFactor = focus,
        !.melodyFactor = melody,
        !.internalTextureTime = @ + (internalTextureSpeed * timeDelta) \div 1000,
        !.currentWavinessInfluence =
           Lerp(@, targetWavinessInfluence, wavinessInfluenceLerpFactor),
        !.currentActiveTextureIntensity =
           Lerp(@, targetTextureIntensity, textureIntensityLerpFactor),
        !.currentPassiveDeformationAmount =
           Lerp(@, targetPassiveDeformation, passiveDeformationLerpFactor),
        !.emphasisFactor = emphasis,
        !.activePeakMultiplier =
           Lerp(@, targetMultiplier, (activeMultiplierLerpFactor * timeDelta) \div 1000),
        !.ahaTimer = ahaTimer,
        !.isAhaMoment = IF f.ahaTimer > 0 /\ ahaTimer <= 0 THEN FALSE ELSE @,
        !.flashIntensity = Lerp(@, 0, flashDecay)]

\* updateColor, the hue: targetHue and currentHue are held in millionths of a
\* degree, so that one step of the slow hue interpolation is not rounded away
UpdateColor(f, active) ==
  LET reacting == active /\ f.smoothedOverallLevel > audioThreshold
      third == (hueShiftRange * 1000) \div 3
      half == (hueShiftRange * 1000) \div 2
      spreadShift == MapClamped(f.frequencySpread, 100, 600, -third, third) * 1000
      pitchShift == MapClamped(f.pitchProxy, 0, 1000, -half, half) * 1000
      target ==
        IF reacting
        THEN (baseHue * 1000000 + spreadShift + pitchShift + 360000000) % 360000000
        ELSE baseHue * 1000000
      hueDiff == target - f.currentHue
      hue0 == IF Abs(hueDiff) > 180000000
              THEN IF hueDiff > 0 THEN f.currentHue + 360000000
                   ELSE f.currentHue - 360000000
              ELSE f.currentHue
  IN  [f EXCEPT
        !.targetHue = target,
        !.currentHue = (Lerp(hue0, target, hueLerpFactor) + 360000000) % 360000000]

\* the updates of one run of p.draw, in order: updateAudio (a is the analysed
\* snapshot), updateStateAndMotion(timeDelta), updateColor
FrameFields(f, capturing, active, a, timeDelta) ==
  UpdateColor(UpdateStateAndMotion(UpdateAudio(f, capturing, a), active, timeDelta),
              active)

(***************************************************************************)
(* calculateBlobShape: the radius of one vertex of the frame.  p.noise at  *)
(* the vertex and the sines of the time-driven phases are inputs: s holds  *)
(* the noise values (0..1000) and the sine values (-1000..1000).           *)
(***************************************************************************)
\* x * y for two quantities in thousandths
Mul(x, y) == TruncDiv(x * y, 1000)

\* p.map(n, 0, 1, -amount, amount)
MapSigned(n, amount) == -amount + TruncDiv(n * 2 * amount, 1000)

BlobVertex(f, active, s) ==
  LET level == f.smoothedOverallLevel
      treble == f.smoothedTrebleLevel
      coreMod ==
        (IF f.isBreathing THEN Mul(s.sinBreathing, breathingAmount) ELSE 0)
        + (IF f.inhaleAmount # 0 THEN -Mul(s.sinInhale, maxInhaleFactor) ELSE 0)
      currentBaseRadius == Mul(f.baseRadius, 1000 + coreMod)
      volumeWavinessBoost == MapClamped(level, 200, 800, 1000, 2200)
      highFreqWavinessBoost == MapClamped(treble, 100, 700, 1000, 1600)
      waveAmplitude == 5 + Mul(level, 40)
      volumeModulatedAmount ==
        IF level > 300
        THEN Lerp(f.currentPassiveDeformationAmount,
                  Mul(f.currentPassiveDeformationAmount, volumeWavinessBoost),
                  MapClamped(level, 300, 900, 0, 1000))
        ELSE f.currentPassiveDeformationAmount
      passiveOffset ==
        Mul(TruncDiv(MapSigned(s.passiveNoiseVal, volumeModulatedAmount), 1000),
            currentBaseRadius)
      rippleOffset ==
        IF treble > 250
        THEN Mul(s.sinRipple,
                 Mul(Mul(Mul(currentBaseRadius, 4), treble), highFreqWavinessBoost))
        ELSE 0
      coreRadius == currentBaseRadius + passiveOffset + rippleOffset
      textureOffset ==
        TruncDiv(MapSigned(s.textureNoiseVal, f.currentActiveTextureIntensity), 1000)
      amplifiedWavinessInfluence ==
        IF level > 200
        THEN Lerp(f.currentWavinessInfluence,
                  (Mul(f.currentWavinessInfluence, volumeWavinessBoost) * 3) \div 2,
                  MapClamped(level, 200, 800, 0, 1000))
        ELSE f.currentWavinessInfluence
      volumeWave ==
        IF level > 300
        THEN Mul(Mul(Mul(Mul(s.sinWave, waveAmplitude), 600), currentBaseRadius),
                 MapClamped(level, 300, 800, 0, 1000))
        ELSE 0
      wavinessOffset ==
        Mul(MapSigned(s.wavinessNoiseVal, 1000),
            TruncDiv(amplifiedWavinessInfluence, 1000)) + volumeWave
      combinedActiveNoiseShape == s.shapeNoiseVal + textureOffset + wavinessOffset
      peakMagnitude ==
        TruncDiv(Mul(f.baseRadius, Max2(0, combinedActiveNoiseShape)), 1000)
        * Max2(0, f.activePeakMultiplier - 1000)
      peakExtensionOffset ==
        IF f.activeStateIntensity > 10 /\ active
        THEN TruncDiv(peakMagnitude, 1000) * f.activeStateIntensity
        ELSE 0
      minRadiusClamp == Mul(Mul(f.baseRadius, 200), 1000 - maxInhaleFactor)
      maxCoreDeformation ==
        Mul(f.baseRadius,
            1000 + (basePassiveDeformationAmount + maxPassiveDeformationBoost) \div 1000
                 + breathingAmount + maxInhaleFactor)
      maxPeak == Mul(f.baseRadius, maxPeakExtensionFactor)
      volumeDeformationFactor == 1000 + Mul(level, 300)
      maxRadiusClamp == Mul(maxCoreDeformation + Mul(maxPeak, 1200), volumeDeformationFactor)
  IN  [ totalRadius |-> Constrain(coreRadius + peakExtensionOffset,
                                  minRadiusClamp, maxRadiusClamp),
        minRadiusClamp |-> minRadiusClamp,
        maxRadiusClamp |-> maxRadiusClamp ]

\* noise and sine values at one vertex
Sample(noise, sine) ==
  [ passiveNoiseVal |-> noise, shapeNoiseVal |-> noise, textureNoiseVal |-> noise,
    wavinessNoiseVal |-> noise, sinBreathing |-> sine, sinInhale |-> -sine,
    sinRipple |-> sine, sinWave |-> sine ]

\* the vertex where every term pulls inward, a neutral one, and the one where
\* every term pushes outward
Samples == {Sample(0, -1000), Sample(500, 0), Sample(1000, 1000)}

\* calculateBlobShape of the host-driven sketch (components/AudioReactiveBlob.jsx):
\* the radius of one vertex from the activity and volume the host has set
HostBlobVertex(radius0, currentVisualActivity, smoothedVolumeLevel, isConnectingVisually, s) ==
  LET idleOffset == Mul(MapSigned(s.passiveNoiseVal, 30), radius0)
      activeDeformationAmount == 50 + Mul(smoothedVolumeLevel, 150)
      activeOffset == Mul(MapSigned(s.shapeNoiseVal, activeDeformationAmount), radius0)
      wavinessAmount == 20 + Mul(smoothedVolumeLevel, 80)
      wavinessOffset == Mul(MapSigned(s.wavinessNoiseVal, wavinessAmount), radius0)
      activePart ==
        IF currentVisualActivity > 10
        THEN Mul(activeOffset + wavinessOffset, currentVisualActivity)
        ELSE 0
      pulseAmount ==
        IF isConnectingVisually
        THEN Mul(Mul(Mul((s.sinWave + 1000) \div 2, radius0), 50),
                 1000 - currentVisualActivity)
        ELSE 0
      minRadiusClamp == Mul(radius0, 600)
      maxRadiusClamp == Mul(radius0, 1400)
  IN  [ totalRadius |-> Constrain(radius0 + idleOffset + activePart + pulseAmount,
                                  minRadiusClamp, maxRadiusClamp),
        minRadiusClamp |-> minRadiusClamp,
        maxRadiusClamp |-> maxRadiusClamp ]

\* calculateBlobShape of the sketch without volume reactivity (unnamed/part_004)
PulsingBlobVertex(radius0, currentVisualActivity, isConnectingVisually, s) ==
  LET idleOffset == Mul(MapSigned(s.passiveNoiseVal, 15), radius0)
      gentlePulse == Mul(Mul(s.sinBreathing, 10), radius0)
      activeOffset == Mul(MapSigned(s.shapeNoiseVal, 25), radius0)
      wavinessOffset == Mul(MapSigned(s.wavinessNoiseVal, 15), radius0)
      activePart ==
        IF currentVisualActivity > 10
        THEN Mul(Mul(activeOffset + wavinessOffset, 600) + gentlePulse,
                 currentVisualActivity)
        ELSE 0
      pulseAmount ==
        IF isConnectingVisually
        THEN Mul(Mul(Mul((s.sinWave + 1000) \div 2, radius0), 50),
                 1000 - currentVisualActivity)
        ELSE 0
      minRadiusClamp == Mul(radius0, 800)
      maxRadiusClamp == Mul(radius0, 1200)
  IN  [ totalRadius |-> Constrain(radius0 + idleOffset + activePart + pulseAmount,
                                  minRadiusClamp, maxRadiusClamp),
        minRadiusClamp |-> minRadiusClamp,
        maxRadiusClamp |-> maxRadiusClamp ]

\* a teardown that zeroes the smoothed levels instead of fading them
StopAudioFieldsZeroed(f) ==
  [f EXCEPT !.smoothedOverallLevel = 0, !.smoothedMidLevel = 0,
            !.smoothedTrebleLevel = 0, !.frequencySpread = 0]

\* stopAudioProcessing, its effect on the fields (the fade-out and the resets)
StopAudioFields(f) ==
  LET stopLerpFactor == audioLerpFactor * 4
  IN  [f EXCEPT
        !.smoothedOverallLevel = Lerp(@, 0, stopLerpFactor),
        !.smoothedMidLevel = Lerp(@, 0, stopLerpFactor),
        !.smoothedTrebleLevel = Lerp(@, 0, stopLerpFactor),
        !.frequencySpread = Lerp(@, 0, stopLerpFactor),
        !.averageVolume = 0,
        !.volumeHistory = [i \in DOMAIN @ |-> 0],
        !.midHistory = [i \in DOMAIN @ |-> 0],
        !.sustainedMidLevel = 0,
        !.pitchProxy = 500,
        !.lastPitchProxy = 500,
        !.pitchChangeRate = 0,
        !.focusFactor = 0,
        !.melodyFactor = 0,
        !.emphasisFactor = 0]

\* the resets without the one of the breathing flag
ResetPauseFieldsBreathing(f) ==
  [f EXCEPT !.pauseEnded = FALSE, !.pauseEffectTimer = 0,
            !.pauseEffectIntensity = 0, !.inhaleAmount = 0]

\* the resets, were they to stop the transient's timer as well
ResetPauseFieldsTimer(f) ==
  [f EXCEPT !.isBreathing = FALSE, !.pauseEnded = FALSE, !.pauseEffectTimer = 0,
            !.pauseEffectIntensity = 0, !.inhaleAmount = 0, !.ahaTimer = 0]

\* the animation resets shared by p.activate and p.deactivate
ResetPauseFields(f) ==
  [f EXCEPT !.isBreathing = FALSE, !.pauseEnded = FALSE, !.pauseEffectTimer = 0,
            !.pauseEffectIntensity = 0, !.inhaleAmount = 0]

VARIABLES
  isP5StateActive,  \* logical state of the sketch
  audioReady,       \* capture is set up and may be sampled
  audioContext,     \* the sketch's context: 0 or an index of contexts
  contexts,         \* every AudioContext created: [state, closing]
  micStream,        \* the sketch's stream: 0 or an index of streams
  streams,          \* every MediaStream granted: "live" or "stopped"
  microphone,       \* source node: 0 or the stream it was created from
  analyser,         \* analyser node: 0 or the context it was created in
  frequencyData,    \* whether the byte buffer is allocated
  tasks,            \* setupAudio runs: [pc, ctx, fresh]
  removed,          \* p.remove() was called
  fields,           \* the smoothed signals, the animation sub-state, the canvas
  frameCount,       \* frames drawn so far
  vertex,           \* a vertex of the last frame: its radius and clamp bounds
  lastLifecycle,    \* the last entry point called: "none", "activate", ...
  host,             \* the component that owns the capturing sketch
  blob,             \* the component of the host-driven sketch, and that sketch
  hook,             \* the useVapiService hook of a mounted component
  mock,             \* the MockVapiService instances the hook created
  vapi              \* api/vapiService.js: the useVapiService hook and the SDK's call

captureVars == <<audioReady, audioContext, contexts, micStream, streams,
                 microphone, analyser, frequencyData>>

\* the state of the capturing sketch
sketchVars == <<isP5StateActive, audioReady, audioContext, contexts, micStream,
                streams, microphone, analyser, frequencyData, tasks, removed,
                fields, frameCount, vertex, lastLifecycle>>

\* the state of the components and services around it
appVars == <<host, blob, hook, mock, vapi>>

vars == <<sketchVars, appVars>>

\* the host component mounted with isActive = active: the instance is created
\* 50 ms and an import later
HostMounted(active) ==
  [isActive |-> active, mounted |-> TRUE, p5InstanceRef |-> 0, loader |-> "timer",
   effectInstance |-> 0]

\* the host component with the sketch created, never asked to capture
HostLoaded ==
  [isActive |-> FALSE, mounted |-> TRUE, p5InstanceRef |-> 1, loader |-> "done",
   effectInstance |-> 0]

\* the component of the host-driven sketch mounted with the props active and
\* volume: the sketch is created an import later, with the state its
\* declarations give it; framesHeld counts the frames drawn since
\* averageVolume last changed, volumeRenders the changes of averageVolume
BlobMounted(active, volume) ==
  [isActive |-> active, averageVolume |-> volume, mounted |-> TRUE,
   p5InstanceRef |-> 0, loader |-> "importing",
   isVisuallyActive |-> FALSE, smoothedVolumeLevel |-> 0, framesHeld |-> 0,
   volumeRenders |-> 0]

\* no component uses the useVapiService hook.  Besides the hook's state and
\* refs: effectIsActive is the isActive the service effect last ran with, gum
\* the getUserMedia request in flight and who awaits it, toggleSaw the state
\* the closures of the last toggleMicrophone call captured, startTimer and
\* resetTimer its 200 ms and 300 ms timers, clicks the calls made
HookUnmounted ==
  [mounted |-> FALSE, isActive |-> FALSE, effectIsActive |-> FALSE,
   currentText |-> "", serviceState |-> "idle", hasInteracted |-> FALSE,
   microphoneState |-> "off", micStateRef |-> "off", isProcessingRef |-> FALSE,
   serviceRef |-> 0, gum |-> "none",
   toggleSaw |-> [hasInteracted |-> FALSE, serviceState |-> "idle"],
   startTimer |-> FALSE, resetTimer |-> FALSE, clicks |-> 0]

\* the components around the sketch at rest: the sketch created and inactive,
\* no hook mounted, no call
\* api/vapiService.js, useVapiService before its mount: the useState and useRef
\* initial values; handlerCallStatus, handlerIsSpeaking and
\* handlerPreSpeechTranscript are the state the SDK handlers closed over, call
\* is the SDK's call, stopped whether stopVapiCall was accepted after the
\* last startVapiCall
VapiUnmounted ==
  [ mounted |-> FALSE, callStatus |-> "inactive", isSpeaking |-> FALSE,
    recordingState |-> "inactive", error |-> FALSE, averageVolumeLevel |-> 0,
    transcript |-> "", preSpeechTranscript |-> "",
    vapiRef |-> FALSE, isStoppingRef |-> FALSE,
    handlerCallStatus |-> "inactive", handlerIsSpeaking |-> FALSE,
    handlerPreSpeechTranscript |-> "",
    call |-> "none", stopped |-> FALSE ]

AppIdle ==
  /\ host = HostLoaded
  /\ blob = BlobMounted(FALSE, 0)
  /\ hook = HookUnmounted
  /\ mock = <<>>
  /\ vapi = VapiUnmounted

\* the initial shape p.setup computes, at one vertex
SetupVertices == {BlobVertex(InitialFields, FALSE, s) : s \in Samples}

(***************************************************************************)
(* State after construction and p.setup.                                   *)
(***************************************************************************)
SketchInit ==
  /\ isP5StateActive = FALSE
  /\ audioReady = FALSE
  /\ audioContext = 0
  /\ contexts = <<>>
  /\ micStream = 0
  /\ streams = <<>>
  /\ microphone = 0
  /\ analyser = 0
  /\ frequencyData = FALSE
  /\ tasks = <<>>
  /\ removed = FALSE
  /\ fields = InitialFields
  /\ frameCount = 0
  /\ vertex \in SetupVertices
  /\ lastLifecycle = "none"

Init == SketchInit /\ AppIdle

\* audioContext && audioContext.state === 'running'
ContextRunning == audioContext # 0 /\ contexts[audioContext].state = "running"

\* audioContext && audioContext.state !== 'closed'
ContextNotClosed == audioContext # 0 /\ contexts[audioContext].state # "closed"

\* the states a new AudioContext() can start in (autoplay policy)
NewContextStates == {"running", "suspended"}

\* the setupAudio runs that have not returned yet
Pending == {t \in DOMAIN tasks : tasks[t].pc # "done"}

\* streams whose tracks have not been stopped
LiveStreams == {s \in DOMAIN streams : streams[s] = "live"}

\* contexts that were neither closed nor asked to close
OpenContexts ==
  {c \in DOMAIN contexts : contexts[c].state # "closed" /\ ~contexts[c].closing}

\* micStream is dropped without its tracks being stopped
StopTracksSkipped(strs, ms) == strs

\* micStream.getTracks().forEach(track => track.stop()) on stream ms (0: no stream)
StopTracks(strs, ms) == IF ms # 0 THEN [strs EXCEPT ![ms] = "stopped"] ELSE strs

(***************************************************************************)
(* p.activate: resets the pause sub-state, flips the logical state, and    *)
(* unless capture is already running starts a setup after a 100 ms timer.  *)
(***************************************************************************)
ActivateCall ==
  /\ IF ContextRunning /\ audioReady THEN TRUE ELSE Len(tasks) < MaxSetups
  /\ fields' = [ResetPauseFields(fields) EXCEPT !.silenceFrames = 0]
  /\ isP5StateActive' = TRUE
  /\ tasks' = IF ContextRunning /\ audioReady THEN tasks
              ELSE Append(tasks, [pc |-> "timer", ctx |-> 0, fresh |-> TRUE])
  /\ lastLifecycle' = "activate"
  /\ UNCHANGED <<captureVars, removed, frameCount, vertex>>

\* p.activate called on the sketch
Activate == ActivateCall /\ UNCHANGED appVars

\* new AudioContext() in state st, then resume() or getUserMedia (setupAudio 1525-1547)
CreateContext(t, ctxs, st) ==
  /\ contexts' = Append(ctxs, [state |-> st, closing |-> FALSE])
  /\ audioContext' = Len(ctxs) + 1
  /\ tasks' = [tasks EXCEPT ![t].pc = IF st = "suspended" THEN "resuming" ELSE "gum2",
                            ![t].ctx = Len(ctxs) + 1]

\* the timer of p.activate fires: setupAudio runs up to its first await
SetupStart(t) ==
  /\ tasks[t].pc = "timer"
  /\ IF ContextRunning
     THEN /\ IF micStream = 0 \/ streams[micStream] # "live"
             THEN /\ tasks' = [tasks EXCEPT ![t].pc = "gum1"]
                  /\ UNCHANGED audioReady
             ELSE /\ tasks' = [tasks EXCEPT ![t].pc = "done"]
                  /\ audioReady' = TRUE
          /\ UNCHANGED <<audioContext, contexts>>
     ELSE IF ContextNotClosed
     THEN /\ contexts' = [contexts EXCEPT ![audioContext].closing = TRUE]
          /\ tasks' = [tasks EXCEPT ![t].pc = "closing0", ![t].ctx = audioContext]
          /\ UNCHANGED <<audioContext, audioReady>>
     ELSE /\ \E st \in NewContextStates : CreateContext(t, contexts, st)
          /\ UNCHANGED audioReady
  /\ UNCHANGED <<isP5StateActive, micStream, streams, microphone, analyser,
                 frequencyData, removed, appVars, fields, frameCount, vertex, lastLifecycle>>

\* the catch block of the reconnect branch (setupAudio 1505-1510)
CatchReconnect(t) ==
  /\ audioReady' = FALSE
  /\ isP5StateActive' = FALSE
  /\ tasks' = [tasks EXCEPT ![t].pc = "done"]

\* the outer catch block (setupAudio 1562-1584); ms and strs are micStream and
\* the streams when the exception is thrown
CatchSetup(t, ms, strs) ==
  /\ audioReady' = FALSE
  /\ isP5StateActive' = FALSE
  /\ streams' = StopTracks(strs, ms)
  /\ micStream' = 0
  /\ microphone' = 0
  /\ analyser' = 0
  /\ frequencyData' = FALSE
  /\ IF ContextNotClosed
     THEN /\ contexts' = [contexts EXCEPT ![audioContext].closing = TRUE]
          /\ tasks' = [tasks EXCEPT ![t].pc = "closingErr", ![t].ctx = audioContext]
          /\ UNCHANGED audioContext
     ELSE /\ audioContext' = 0
          /\ tasks' = [tasks EXCEPT ![t].pc = "done"]
          /\ UNCHANGED contexts

\* the permission request of the reconnect branch is granted (1493-1504, 1513)
GrantReconnect(t) ==
  /\ tasks[t].pc = "gum1"
  /\ streams' = Append(streams, "live")
  /\ micStream' = Len(streams) + 1
  /\ IF audioContext = 0
     THEN CatchReconnect(t) /\ UNCHANGED microphone
     ELSE /\ microphone' = Len(streams) + 1
          /\ IF analyser = 0 \/ analyser # audioContext
             THEN CatchReconnect(t)
             ELSE /\ audioReady' = TRUE
                  /\ tasks' = [tasks EXCEPT ![t].pc = "done"]
                  /\ UNCHANGED isP5StateActive
  /\ UNCHANGED <<audioContext, contexts, analyser, frequencyData, removed, appVars,
                 fields, frameCount, vertex, lastLifecycle>>

\* the permission request of the reconnect branch is refused
DenyReconnect(t) ==
  /\ tasks[t].pc = "gum1"
  /\ CatchReconnect(t)
  /\ UNCHANGED <<audioContext, contexts, micStream, streams, microphone, analyser,
                 frequencyData, removed, appVars, fields, frameCount, vertex, lastLifecycle>>

\* await audioContext.resume() settles (1537-1539), then getUserMedia is called
ResumeSettled(t) ==
  /\ tasks[t].pc = "resuming"
  /\ IF contexts[tasks[t].ctx].closing \/ contexts[tasks[t].ctx].state = "closed"
     THEN CatchSetup(t, micStream, streams)
     ELSE /\ contexts' = [contexts EXCEPT ![tasks[t].ctx].state = "running"]
          /\ tasks' = [tasks EXCEPT ![t].pc = "gum2"]
          /\ UNCHANGED <<isP5StateActive, audioReady, audioContext, micStream,
                         streams, microphone, analyser, frequencyData>>
  /\ UNCHANGED <<removed, appVars, fields, frameCount, vertex, lastLifecycle>>

\* the permission request of a full setup is granted (1542-1561)
GrantSetup(t) ==
  /\ tasks[t].pc = "gum2"
  /\ IF audioContext = 0
     THEN CatchSetup(t, Len(streams) + 1, Append(streams, "live"))
     ELSE /\ streams' = Append(streams, "live")
          /\ micStream' = Len(streams) + 1
          /\ microphone' = Len(streams) + 1
          /\ analyser' = audioContext
          /\ frequencyData' = TRUE
          /\ audioReady' = TRUE
          /\ tasks' = [tasks EXCEPT ![t].pc = "done"]
          /\ UNCHANGED <<isP5StateActive, audioContext, contexts>>
  /\ UNCHANGED <<removed, appVars, fields, frameCount, vertex, lastLifecycle>>

\* the permission request of a full setup is refused
DenySetup(t) ==
  /\ tasks[t].pc = "gum2"
  /\ CatchSetup(t, micStream, streams)
  /\ UNCHANGED <<removed, appVars, fields, frameCount, vertex, lastLifecycle>>

\* await audioContext.close() settles: line 1521-1522 goes on to create a context,
\* line 1579-1583 returns
CloseSettled(t) ==
  /\ tasks[t].pc \in {"closing0", "closingErr"}
  /\ LET closed == [contexts EXCEPT ![tasks[t].ctx].state = "closed"]
     IN  IF tasks[t].pc = "closing0"
         THEN \E st \in NewContextStates : CreateContext(t, closed, st)
         ELSE /\ contexts' = closed
              /\ audioContext' = 0
              /\ tasks' = [tasks EXCEPT ![t].pc = "done"]
  /\ UNCHANGED <<isP5StateActive, audioReady, micStream, streams, microphone,
                 analyser, frequencyData, removed, appVars, fields, frameCount, vertex, lastLifecycle>>

\* stopAudioProcessing (1596-1638)
StopAudioProcessing ==
  /\ streams' = StopTracks(streams, micStream)
  /\ micStream' = 0
  /\ microphone' = 0
  /\ audioReady' = FALSE

\* a lifecycle call withdraws the activations made before it
Withdrawn == [t \in DOMAIN tasks |-> [tasks[t] EXCEPT !.fresh = FALSE]]

\* p.deactivate (1981)
DeactivateCall ==
  /\ isP5StateActive' = FALSE
  /\ StopAudioProcessing
  /\ fields' = StopAudioFields(ResetPauseFields(fields))
  /\ tasks' = Withdrawn
  /\ lastLifecycle' = "deactivate"
  /\ UNCHANGED <<audioContext, contexts, analyser, frequencyData, removed,
                 frameCount, vertex>>

\* p.deactivate called on the sketch
Deactivate == DeactivateCall /\ UNCHANGED appVars

\* p.cleanup (1982)
CleanupCall ==
  /\ StopAudioProcessing
  /\ fields' = StopAudioFields(fields)
  /\ contexts' = IF ContextNotClosed
                 THEN [contexts EXCEPT ![audioContext].closing = TRUE]
                 ELSE contexts
  /\ audioContext' = IF ContextNotClosed THEN 0 ELSE audioContext
  /\ removed' = TRUE
  /\ tasks' = Withdrawn
  /\ lastLifecycle' = "cleanup"
  /\ UNCHANGED <<isP5StateActive, analyser, frequencyData, frameCount, vertex>>

\* p.cleanup called on the sketch
Cleanup == CleanupCall /\ UNCHANGED appVars

\* frame-time factors p.deltaTime / (1000 / 60) a frame can see: the nominal
\* one, and the one after a second without frames (a hidden tab)
TimeDeltas == {1000, 60000}

\* isP5StateActive && audioReady && analyser && frequencyData (updateAudio)
Capturing == isP5StateActive /\ audioReady /\ analyser # 0 /\ frequencyData

\* one run of p.draw on the fields f: updateAudio, updateStateAndMotion,
\* updateColor, then the shape; analyses are the analysed snapshots the analyser
\* can deliver in this frame
DrawFrameOn(f, deltas, analyses) ==
  /\ ~removed
  /\ \E timeDelta \in deltas, a \in analyses :
       fields' = FrameFields(f, Capturing, isP5StateActive, a, timeDelta)
  /\ \E s \in Samples : vertex' = BlobVertex(fields', isP5StateActive, s)
  /\ UNCHANGED <<isP5StateActive, captureVars, tasks, removed, lastLifecycle>>

\* one fifth of the smaller canvas dimension, less a pixel
BaseRadiusShrunk(w, h) == ((Min2(w, h) - 1) * 1000) \div 5

\* p.min(p.width, p.height) / 5.0, in thousandths of a pixel
BaseRadiusOf(w, h) == (Min2(w, h) * 1000) \div 5

\* a resize that starts the animation over
ResizeFieldsReset(f, w, h) ==
  [InitialFields EXCEPT !.canvasWidth = w, !.canvasHeight = h,
                        !.baseRadius = BaseRadiusOf(w, h)]

\* p.resizeCanvas(canvasWidth, canvasHeight); baseRadius = p.min(...) / 5.0
ResizeFields(f, w, h) ==
  [f EXCEPT !.canvasWidth = w, !.canvasHeight = h, !.baseRadius = BaseRadiusOf(w, h)]

\* container.offsetWidth and offsetHeight at a resize: a collapsed container, a
\* single pixel, a container without height, and a landscape one
ContainerSizes == {<<0, 0>>, <<1, 1>>, <<500, 0>>, <<800, 500>>}

\* p.windowResized (the container exists): the canvas and baseRadius follow the
\* container, then p.redraw() runs p.draw once, with p.deltaTime as the last
\* frame left it
WindowResized(deltas) ==
  \E size \in ContainerSizes :
    /\ DrawFrameOn(ResizeFields(fields, size[1], size[2]), deltas,
                   {Analysis[n] : n \in DOMAIN Snapshots})
    /\ UNCHANGED appVars

\* a tick of p5's draw loop
DrawFrameWith(deltas, analyses) ==
  /\ fields.looping
  /\ DrawFrameOn(fields, deltas, analyses)
  /\ UNCHANGED appVars

DrawFrame(deltas) == DrawFrameWith(deltas, {Analysis[n] : n \in DOMAIN Snapshots})

Frame ==
  /\ frameCount < MaxFrames
  /\ frameCount' = frameCount + 1
  /\ DrawFrame(TimeDeltas)

Next ==
  \/ Activate
  \/ Deactivate
  \/ Cleanup
  \/ Frame
  \/ \E t \in DOMAIN tasks : SetupStart(t)
  \/ \E t \in DOMAIN tasks : GrantReconnect(t)
  \/ \E t \in DOMAIN tasks : DenyReconnect(t)
  \/ \E t \in DOMAIN tasks : ResumeSettled(t)
  \/ \E t \in DOMAIN tasks : GrantSetup(t)
  \/ \E t \in DOMAIN tasks : DenySetup(t)
  \/ \E t \in DOMAIN tasks : CloseSettled(t)

Spec == Init /\ [][Next]_vars

(***************************************************************************)
(* C1: when one activate() is followed by deactivate() before the          *)
(* permission request resolves, then once the request has settled no       *)
(* capture session is open: no stream has a live track and audioReady is   *)
(* false.                                                                  *)
(***************************************************************************)
C1_WithdrawnActivationLeavesNoCapture ==
  (Len(tasks) = 1 /\ Pending = {} /\ lastLifecycle = "deactivate")
    => (LiveStreams = {} /\ ~audioReady)

(***************************************************************************)
(* C2: under every interleaving of activate() and deactivate() at most one *)
(* stream is live, and every live stream is still held in micStream (no    *)
(* stream becomes unreachable before its tracks are stopped).              *)
(***************************************************************************)
C2_AtMostOneReachableLiveStream ==
  /\ Cardinality(LiveStreams) <= 1
  /\ LiveStreams \subseteq {micStream}

(***************************************************************************)
(* C4: the active flag changes to false only inside deactivate(); a failed *)
(* capture setup leaves it true.                                           *)
(***************************************************************************)
C4_ActiveFlagClearedOnlyByDeactivate ==
  [][(isP5StateActive /\ ~isP5StateActive') => Deactivate]_vars

\* a deactivate() called in this state would leave every variable as it is
DeactivateChangesNothing ==
  /\ ~isP5StateActive
  /\ ~audioReady
  /\ micStream = 0
  /\ microphone = 0
  /\ StopAudioFields(ResetPauseFields(fields)) = fields

(***************************************************************************)
(* C5: deactivate() is idempotent: in the state a deactivate() leaves, a   *)
(* second deactivate() changes nothing (logical state, capture handles,    *)
(* smoothed signal and animation fields).                                  *)
(***************************************************************************)
C5_DeactivateIdempotent ==
  [][Deactivate => DeactivateChangesNothing']_vars

(***************************************************************************)
(* C7: after cleanup(), however it is interleaved with the other calls,    *)
(* once the setups in flight have settled no track is live and no audio    *)
(* context is open.                                                        *)
(***************************************************************************)
C7_CleanupReleasesEverything ==
  (lastLifecycle = "cleanup" /\ Pending = {})
    => (LiveStreams = {} /\ OpenContexts = {})

\* setup t was started by an activate() that no deactivate() or cleanup() followed,
\* and has not yet got past its permission request
AwaitingPermission(t) ==
  tasks[t].fresh /\ tasks[t].pc \in {"timer", "resuming", "gum1", "gum2"}

(***************************************************************************)
(* C8: while the permission request of an activation is pending (and no    *)
(* deactivate() was called since), the active flag is true.                *)
(***************************************************************************)
C8_ActiveWhilePermissionPending ==
  \A t \in DOMAIN tasks : AwaitingPermission(t) => isP5StateActive

(***************************************************************************)
(* The sketch while its permission prompt is left unanswered: the calls    *)
(* and a long run of frames at the nominal frame rate.                     *)
(***************************************************************************)
MotionFrame ==
  /\ frameCount < MaxMotionFrames
  /\ frameCount' = frameCount + 1
  /\ DrawFrame({1000})

NextMotion == Activate \/ Deactivate \/ MotionFrame

SpecMotion == Init /\ [][NextMotion]_vars

(***************************************************************************)
(* C9: while the sketch is Idle (before the first activate() and from a    *)
(* deactivate() to the next activate()) pauseEffectTimer and inhaleAmount  *)
(* stay 0, whatever silenceFrames was when deactivate() was called.        *)
(***************************************************************************)
C9_NoPauseEffectWhileIdle ==
  lastLifecycle \in {"none", "deactivate"}
    => (fields.pauseEffectTimer = 0 /\ fields.inhaleAmount = 0)

(***************************************************************************)
(* Sequential use, as the host's isActive effect makes it when each setup  *)
(* settles before the next call: activate() and deactivate() alternate,    *)
(* and deactivate() and cleanup() come only once no setup is in flight.    *)
(***************************************************************************)
CycleActivate == lastLifecycle # "activate" /\ Pending = {} /\ Activate

CycleDeactivate == Pending = {} /\ Deactivate

CycleCleanup == Pending = {} /\ Cleanup

NextCycles ==
  \/ CycleActivate
  \/ CycleDeactivate
  \/ CycleCleanup
  \/ Frame
  \/ \E t \in DOMAIN tasks : SetupStart(t)
  \/ \E t \in DOMAIN tasks : GrantReconnect(t)
  \/ \E t \in DOMAIN tasks : DenyReconnect(t)
  \/ \E t \in DOMAIN tasks : ResumeSettled(t)
  \/ \E t \in DOMAIN tasks : GrantSetup(t)
  \/ \E t \in DOMAIN tasks : DenySetup(t)
  \/ \E t \in DOMAIN tasks : CloseSettled(t)

SpecCycles == Init /\ [][NextCycles]_vars

(***************************************************************************)
(* C6: over activate/deactivate cycles in which every setup settles before *)
(* the following deactivate(), no track is live and audioReady is false    *)
(* after each deactivate(), and a stream is acquired only when every       *)
(* earlier stream's tracks are stopped: the only live stream is micStream. *)
(***************************************************************************)
C6_CyclesReleaseEveryStream ==
  /\ LiveStreams \subseteq {micStream}
  /\ lastLifecycle = "deactivate" => (LiveStreams = {} /\ ~audioReady)

\* two cycles have each acquired a stream and the second deactivate() has run
C6_TwoCyclesDone ==
  /\ lastLifecycle = "deactivate"
  /\ Len(streams) >= 2
  /\ \A s \in DOMAIN streams : streams[s] = "stopped"

\* the values the interpolations of updateAudio, updateStateAndMotion and
\* stopAudioProcessing aim each field at, for the fields interpolated with a
\* constant factor
SignalTargets ==
  [ smoothedOverallLevel |-> {0} \cup {Analysis[n].normO : n \in DOMAIN Analysis},
    smoothedMidLevel     |-> {0} \cup {Analysis[n].normM : n \in DOMAIN Analysis},
    smoothedTrebleLevel  |-> {0} \cup {Analysis[n].normT : n \in DOMAIN Analysis},
    frequencySpread      |-> {0} \cup {Analysis[n].targetSpread : n \in DOMAIN Analysis},
    pitchProxy           |-> {500} \cup {Analysis[n].targetPitchProxy : n \in DOMAIN Analysis},
    pitchChangeRate      |-> 0..1000,
    focusFactor          |-> 0..1000,
    melodyFactor         |-> 0..1000,
    emphasisFactor       |-> 0..1000,
    pauseEffectIntensity |-> {0},
    inhaleAmount         |-> {1000},
    flashIntensity       |-> {0} ]

\* y lies on the way from x to target and, unless x is there already, short of it:
\* what a lerp with a factor strictly between 0 and 1 yields
MovesToward(x, y, target) ==
  IF x = target THEN y = target
  ELSE IF x < target THEN x <= y /\ y < target
  ELSE target < y /\ y <= x

\* in this step every field of names is left alone or takes one interpolation step
InterpolatedOnly(names) ==
  \A x \in names :
    \/ fields'[x] = fields[x]
    \/ \E target \in SignalTargets[x] : MovesToward(fields[x], fields'[x], target)

\* the fields that only p.lerp with a constant factor ever writes
LerpOnlyFields ==
  {"smoothedOverallLevel", "smoothedMidLevel", "smoothedTrebleLevel", "frequencySpread"}

ShapeLevels == {0, 250, 1000}

ShapeIntensities == {0, 1000, 4200}

ShapeMultipliers == {1000, 1100, 1480}

ShapeInhales == {0, -700, 357}

\* min(width, height) / 5 of a collapsed, a 500 px and an 800 px container
ShapeRadii == {0, 100 * 1000, 160 * 1000}

InitShape ==
  /\ isP5StateActive \in BOOLEAN
  /\ audioReady = FALSE
  /\ audioContext = 0
  /\ contexts = <<>>
  /\ micStream = 0
  /\ streams = <<>>
  /\ microphone = 0
  /\ analyser = 0
  /\ frequencyData = FALSE
  /\ tasks = <<>>
  /\ removed = FALSE
  /\ \E level \in ShapeLevels, treble \in {0, 1000}, intensity \in ShapeIntensities,
        multiplier \in ShapeMultipliers, inhale \in ShapeInhales,
        breathing \in BOOLEAN, influence \in {0, maxWavinessInfluence},
        radius \in ShapeRadii :
       fields = [InitialFields EXCEPT
                   !.smoothedOverallLevel = level,
                   !.smoothedTrebleLevel = treble,
                   !.activeStateIntensity = intensity,
                   !.activePeakMultiplier = multiplier,
                   !.inhaleAmount = inhale,
                   !.isBreathing = breathing,
                   !.currentWavinessInfluence = influence,
                   !.baseRadius = radius]
  /\ frameCount = 0
  /\ vertex = BlobVertex(InitialFields, FALSE, Sample(500, 0))
  /\ lastLifecycle = "none"
  /\ AppIdle

ShapeVertex ==
  /\ frameCount = 0
  /\ \E s \in Samples : vertex' = BlobVertex(fields, isP5StateActive, s)
  /\ frameCount' = 1
  /\ UNCHANGED <<isP5StateActive, captureVars, tasks, removed, appVars, fields, lastLifecycle>>

\* the host-driven sketch: activity at rest, full, and one frame after a second
\* without frames (lerp factor 0.08 * 60); volume as updateVolume admits it
HostShapeVertex ==
  /\ frameCount = 0
  /\ \E activity \in {0, 1000, 4800}, volume \in {0, 500, 1000},
        connecting \in BOOLEAN, s \in Samples :
       vertex' = HostBlobVertex(fields.baseRadius, activity, volume, connecting, s)
  /\ frameCount' = 1
  /\ UNCHANGED <<isP5StateActive, captureVars, tasks, removed, appVars, fields, lastLifecycle>>

\* the sketch without volume reactivity: updateState keeps activity in [0.3, 0.6]
PulsingShapeVertex ==
  /\ frameCount = 0
  /\ \E activity \in {300, 600}, connecting \in BOOLEAN, s \in Samples :
       vertex' = PulsingBlobVertex(fields.baseRadius, activity, connecting, s)
  /\ frameCount' = 1
  /\ UNCHANGED <<isP5StateActive, captureVars, tasks, removed, appVars, fields, lastLifecycle>>

NextShape == ShapeVertex \/ HostShapeVertex \/ PulsingShapeVertex

SpecShape == InitShape /\ [][NextShape]_vars

(***************************************************************************)
(* C3: after the shape computation of a frame the radius of a vertex lies  *)
(* between the clamp bounds of that frame:                                 *)
(* minRadiusClamp <= radius <= maxRadiusClamp.                             *)
(***************************************************************************)
C3_RadiusWithinClamp ==
  /\ vertex.minRadiusClamp <= vertex.totalRadius
  /\ vertex.totalRadius <= vertex.maxRadiusClamp

\* a vertex whose peak extension went past the upper bound and was clamped to it
C3_ClampedAtUpperBound ==
  /\ vertex.maxRadiusClamp > 0
  /\ vertex.totalRadius = vertex.maxRadiusClamp
  /\ fields.smoothedOverallLevel = 1000

(***************************************************************************)
(* The transient ("aha") detector fed a level sequence: once capture is    *)
(* running every frame delivers a flat snapshot, the level 0.1 (bytes 16)  *)
(* or, at one of the frames of SpikeFrames, 0.5 (bytes 80).                *)
(***************************************************************************)
MaxTransientFrames == 100

\* the frames at which the input may spike
SpikeFrames == {MaxTransientFrames - 15, MaxTransientFrames - 10}

LevelSnapshots == [ hold |-> Snapshot(16, 16, fbc), spike |-> Snapshot(80, 80, fbc) ]

LevelAnalysis == [n \in DOMAIN LevelSnapshots |-> AnalyseFrequencyData(LevelSnapshots[n])]

TransientFrame ==
  /\ Capturing
  /\ frameCount < MaxTransientFrames
  /\ frameCount' = frameCount + 1
  /\ DrawFrameWith({1000}, IF frameCount \in SpikeFrames
                           THEN {LevelAnalysis.hold, LevelAnalysis.spike}
                           ELSE {LevelAnalysis.hold})

NextTransient ==
  \/ lastLifecycle = "none" /\ Activate
  \/ TransientFrame
  \/ \E t \in DOMAIN tasks : SetupStart(t)
  \/ \E t \in DOMAIN tasks : ResumeSettled(t)
  \/ \E t \in DOMAIN tasks : GrantSetup(t)

SpecTransient == Init /\ [][NextTransient]_vars

\* the input has held at 0.1: the smoothed level and the trailing average are there
HeldAtTenth ==
  /\ fields.smoothedOverallLevel \in 90..100
  /\ fields.averageVolume \in 90..100
  /\ ~fields.isAhaMoment

\* this step is a frame of the active pipeline whose input level is 0.5
SpikeFed ==
  /\ Capturing
  /\ fields' = FrameFields(fields, TRUE, isP5StateActive, LevelAnalysis.spike, 1000)

(***************************************************************************)
(* C11: when the input has held at 0.1 (trailing average volume 0.1) and   *)
(* one frame then delivers the level 0.5, that frame sets the transient    *)
(* flag isAhaMoment and starts its timer.                                  *)
(***************************************************************************)
C11_SpikeSetsTransientFlag ==
  [][(HeldAtTenth /\ SpikeFed) => (fields'.isAhaMoment /\ fields'.ahaTimer > 0)]_vars

\* the state the single spike frame leaves
C11_SpikeFrameDone ==
  /\ frameCount - 1 \in SpikeFrames
  /\ fields.smoothedOverallLevel > 100
  /\ fields.averageVolume \in 90..100

(***************************************************************************)
(* C13: activeStateIntensity lies in [0, 1] after every frame, for every   *)
(* sequence of activate()/deactivate() calls and every frame time delta,   *)
(* the one after a long gap between two frames included.                   *)
(***************************************************************************)
C13_ActivityIntensityInUnitRange ==
  fields.activeStateIntensity >= 0 /\ fields.activeStateIntensity <= 1000

(***************************************************************************)
(* The signal pipeline under a sustained input: the analyser delivers the  *)
(* loudest snapshot (every byte 255) frame after frame, and any snapshot   *)
(* in the last FreeFrames frames.  The sketch is activated once, its setup *)
(* settles before the next frame, and it is deactivated or cleaned up at   *)
(* any frame after that.                                                   *)
(***************************************************************************)
MaxSustainFrames == 40

FreeFrames == 2

SustainFrame ==
  /\ Pending = {}
  /\ frameCount < MaxSustainFrames
  /\ frameCount' = frameCount + 1
  /\ DrawFrameWith({1000}, IF frameCount >= MaxSustainFrames - FreeFrames
                           THEN {Analysis[n] : n \in DOMAIN Snapshots}
                           ELSE {Analysis.loud})

NextSustained ==
  \/ lastLifecycle = "none" /\ Activate
  \/ lastLifecycle = "activate" /\ CycleDeactivate
  \/ ~removed /\ CycleCleanup
  \/ SustainFrame
  \/ \E t \in DOMAIN tasks : SetupStart(t)
  \/ \E t \in DOMAIN tasks : ResumeSettled(t)
  \/ \E t \in DOMAIN tasks : GrantSetup(t)
  \/ \E t \in DOMAIN tasks : DenySetup(t)
  \/ \E t \in DOMAIN tasks : CloseSettled(t)

SpecSustained == Init /\ [][NextSustained]_vars

\* the signals the analysis normalises
NormalizedSignals ==
  {"smoothedOverallLevel", "smoothedMidLevel", "smoothedTrebleLevel",
   "frequencySpread", "pitchProxy", "averageVolume", "sustainedMidLevel"}

(***************************************************************************)
(* C14: in every reachable state each normalized signal (smoothed overall, *)
(* mid and treble levels, frequency spread, pitch proxy, average volume    *)
(* and sustained mid level) lies in [0, 1].                                *)
(***************************************************************************)
C14_NormalizedSignalsInUnitRange ==
  \A x \in NormalizedSignals : fields[x] >= 0 /\ fields[x] <= 1000

\* bytes above 160 have been fed long enough for the levels to come close to 1
C14_LevelsNearOne ==
  /\ fields.smoothedOverallLevel > 950
  /\ fields.smoothedTrebleLevel > 950
  /\ fields.averageVolume > 500

(***************************************************************************)
(* C12: while capture is inactive (the sketch is not active or audio is    *)
(* not ready) no step raises smoothedOverallLevel or makes it negative,    *)
(* and every frame lowers it as long as the step toward 0 is at least one  *)
(* thousandth, the resolution of the model.                                *)
(***************************************************************************)
C12_IdleLevelDecays ==
  [][(~isP5StateActive \/ ~audioReady) =>
       /\ fields'.smoothedOverallLevel <= fields.smoothedOverallLevel
       /\ fields'.smoothedOverallLevel >= 0
       /\ (frameCount' # frameCount
             /\ fields.smoothedOverallLevel * ((audioLerpFactor * 3) \div 10) >= 1000)
            => fields'.smoothedOverallLevel < fields.smoothedOverallLevel]_vars

\* capture has raised the level, and idle frames have run since while it is still up
C12_DecayingWhileIdle ==
  /\ ~isP5StateActive
  /\ fields.smoothedOverallLevel > 0
  /\ fields.activeStateIntensity > 0
  /\ fields.activeStateIntensity < activeStateLerpFactor

\* buffer h of the configured length became h2 by one push of sample v that
\* evicted the oldest sample
RingPushed(h, h2, v, length) ==
  /\ Len(h2) = length
  /\ h2[length] = v
  /\ \A i \in 1..(length - 1) : h2[i] = h[i + 1]

(***************************************************************************)
(* C15: volumeHistory and midHistory are fixed-length rings.  They hold    *)
(* volumeHistoryLength (60) and midHistoryLength (30) samples after setup  *)
(* and after every step (frames, activate(), deactivate(), cleanup()), and *)
(* each frame pushes exactly one sample per buffer, the smoothed level of  *)
(* the frame or 0 while capture is off, and evicts the oldest one.         *)
(***************************************************************************)
C15_HistoryRings ==
  /\ Len(fields.volumeHistory) = volumeHistoryLength
  /\ Len(fields.midHistory) = midHistoryLength
  /\ [][/\ Len(fields'.volumeHistory) = volumeHistoryLength
        /\ Len(fields'.midHistory) = midHistoryLength
        /\ frameCount' # frameCount =>
             /\ RingPushed(fields.volumeHistory, fields'.volumeHistory,
                           IF Capturing THEN fields'.smoothedOverallLevel ELSE 0,
                           volumeHistoryLength)
             /\ RingPushed(fields.midHistory, fields'.midHistory,
                           IF Capturing THEN fields'.smoothedMidLevel ELSE 0,
                           midHistoryLength)]_vars

\* thirty frames of capture have pushed their samples: the zeros p.setup put in
\* midHistory have all been evicted
C15_SetupSamplesEvicted ==
  /\ fields.midHistory[1] > 0
  /\ fields.volumeHistory[volumeHistoryLength - midHistoryLength + 1] > 0
  /\ fields.volumeHistory[1] = 0

(***************************************************************************)
(* The animation under a constant input: once capture runs, every frame    *)
(* comes one nominal frame time after the last and delivers the same       *)
(* snapshot, and no lifecycle call is made.                                *)
(***************************************************************************)
MaxConvergeFrames == 500

ConvergeFrame ==
  /\ Capturing
  /\ frameCount < MaxConvergeFrames
  /\ frameCount' = frameCount + 1
  /\ DrawFrameWith({1000}, {Analysis.loud})

NextConverge ==
  \/ lastLifecycle = "none" /\ Activate
  \/ ConvergeFrame
  \/ \E t \in DOMAIN tasks : SetupStart(t)
  \/ \E t \in DOMAIN tasks : ResumeSettled(t)
  \/ \E t \in DOMAIN tasks : GrantSetup(t)

SpecConverge == Init /\ [][NextConverge]_vars

(***************************************************************************)
(* C16: after 500 frames with the logical state and the input held         *)
(* constant, the hue (as every lerped animation field) is within 1e-3 of   *)
(* its target value.                                                       *)
(***************************************************************************)
C16_HueConvergedAfter500Frames ==
  frameCount = MaxConvergeFrames => Abs(fields.currentHue - fields.targetHue) <= 1000

(***************************************************************************)
(* The sketch while its container is resized: one activation, frames at    *)
(* the nominal frame rate, and resizes between them.                       *)
(***************************************************************************)
MaxResizeFrames == 3

ResizeFrame ==
  /\ frameCount < MaxResizeFrames
  /\ frameCount' = frameCount + 1
  /\ DrawFrame({1000})

Resize ==
  /\ frameCount < MaxResizeFrames
  /\ frameCount' = frameCount + 1
  /\ WindowResized({1000})

NextResize ==
  \/ lastLifecycle = "none" /\ Activate
  \/ lastLifecycle = "activate" /\ CycleDeactivate
  \/ ResizeFrame
  \/ Resize
  \/ \E t \in DOMAIN tasks : SetupStart(t)
  \/ \E t \in DOMAIN tasks : ResumeSettled(t)
  \/ \E t \in DOMAIN tasks : GrantSetup(t)

SpecResize == Init /\ [][NextResize]_vars

(***************************************************************************)
(* C17: the radius of the vertices handed to the drawing primitives is     *)
(* strictly positive in every reachable state, for every canvas size, a    *)
(* container of width or height 0 included.                                *)
(***************************************************************************)
C17_VertexRadiusPositive == vertex.totalRadius > 0

(***************************************************************************)
(* C18: after a resize, to the degenerate sizes 0x0 and 1x1 as to any      *)
(* other, baseRadius is a number that is not negative and equals one fifth *)
(* of the smaller canvas dimension.                                        *)
(***************************************************************************)
C18_BaseRadiusFifthOfCanvas ==
  /\ fields.baseRadius >= 0
  /\ fields.baseRadius * 5 = Min2(fields.canvasWidth, fields.canvasHeight) * 1000

\* the canvas has been resized to 0x0 or 1x1
C18_ResizedToDegenerate ==
  /\ fields.canvasWidth = fields.canvasHeight
  /\ fields.canvasWidth <= 1

\* this step changes the canvas size
CanvasResized ==
  \/ fields'.canvasWidth # fields.canvasWidth
  \/ fields'.canvasHeight # fields.canvasHeight

\* what a resize is to leave alone: the logical state, the capture handles and setups
ResizeKeeps == UNCHANGED <<isP5StateActive, captureVars, tasks, removed, appVars, lastLifecycle>>

(***************************************************************************)
(* C19 (as stated): a resize changes only the canvas size and baseRadius;  *)
(* every other field, the logical state and the capture handles are as     *)
(* they were.                                                              *)
(***************************************************************************)
C19_ResizeChangesOnlyCanvas ==
  [][CanvasResized =>
       /\ ResizeKeeps
       /\ \A x \in DOMAIN fields \ {"canvasWidth", "canvasHeight", "baseRadius"} :
            fields'[x] = fields[x]]_vars

(***************************************************************************)
(* C19 (amended): a resize changes the canvas size and baseRadius and      *)
(* draws one frame; the fields are those of that frame, taken from their   *)
(* values before the resize (nothing is reset), and the logical state and  *)
(* the capture handles are as they were.                                   *)
(***************************************************************************)
C19_ResizeOnlyRedraws ==
  [][CanvasResized =>
       /\ ResizeKeeps
       /\ \E n \in DOMAIN Snapshots :
            fields' = FrameFields([fields EXCEPT
                                     !.canvasWidth = fields'.canvasWidth,
                                     !.canvasHeight = fields'.canvasHeight,
                                     !.baseRadius = fields'.baseRadius],
                                  Capturing, isP5StateActive, Analysis[n], 1000)]_vars

\* a resize has come while capture was running and the animation was under way
C19_ResizedWhileCapturing ==
  /\ fields.canvasWidth # InitialFields.canvasWidth
  /\ Capturing
  /\ fields.smoothedOverallLevel > Lerp(0, 1000, audioLerpFactor)
  /\ fields.activeStateIntensity > activeStateLerpFactor
  /\ fields.internalTextureTime > internalTextureSpeed

(***************************************************************************)
(* Frames in which a step of p.draw throws.  p.draw has no try/catch, so   *)
(* the exception leaves it with the steps before the throwing one done,    *)
(* and leaves p5's tick before it has requested the next animation frame.  *)
(***************************************************************************)
MaxFaultFrames == 3

\* the steps of p.draw, in order
FrameSteps ==
  {"updateAudio", "updateStateAndMotion", "updateColor", "calculateBlobShape", "draw"}

\* a tick whose step `step` throws
FrameThrows(step) ==
  /\ ~removed
  /\ fields.looping
  /\ \E n \in DOMAIN Snapshots :
       LET afterAudio == UpdateAudio(fields, Capturing, Analysis[n])
           afterState == UpdateStateAndMotion(afterAudio, isP5StateActive, 1000)
           afterColor == UpdateColor(afterState, isP5StateActive)
           reached == CASE step = "updateAudio" -> fields
                        [] step = "updateStateAndMotion" -> afterAudio
                        [] step = "updateColor" -> afterState
                        [] OTHER -> afterColor
       IN  /\ fields' = [reached EXCEPT !.looping = FALSE]
           /\ IF step = "draw"
              THEN \E s \in Samples : vertex' = BlobVertex(reached, isP5StateActive, s)
              ELSE UNCHANGED vertex
  /\ UNCHANGED <<isP5StateActive, captureVars, tasks, removed, appVars, lastLifecycle>>

FaultFrame ==
  /\ frameCount < MaxFaultFrames
  /\ frameCount' = frameCount + 1
  /\ DrawFrame({1000})

ThrowingFrame ==
  /\ frameCount < MaxFaultFrames
  /\ frameCount' = frameCount + 1
  /\ \E step \in FrameSteps : FrameThrows(step)

NextFaults ==
  \/ lastLifecycle = "none" /\ Activate
  \/ FaultFrame
  \/ ThrowingFrame
  \/ \E t \in DOMAIN tasks : SetupStart(t)
  \/ \E t \in DOMAIN tasks : ResumeSettled(t)
  \/ \E t \in DOMAIN tasks : GrantSetup(t)

SpecFaults == Init /\ [][NextFaults]_vars

(***************************************************************************)
(* C20: an exception raised inside a step of a frame never stops the       *)
(* render loop: the draw loop stays scheduled, so that the next tick runs  *)
(* the frame computation again.                                            *)
(***************************************************************************)
C20_RenderLoopSurvivesException == fields.looping

(***************************************************************************)
(* The host component AudioReactivePaintBlob: it creates the sketch 50 ms  *)
(* and a dynamic import after mount, and an effect keyed on the isActive   *)
(* prop calls activate() or deactivate() on the instance it finds in       *)
(* p5InstanceRef.                                                          *)
(***************************************************************************)
hostRest == <<blob, hook, mock, vapi>>

\* the 50 ms timer of the mount effect fires (clearTimeout stops it at unmount)
HostTimer ==
  /\ host.mounted
  /\ host.loader = "timer"
  /\ host' = [host EXCEPT !.loader = "importing"]
  /\ UNCHANGED <<sketchVars, hostRest>>

\* import('p5') resolves and new p5.default(sketch, container) runs p.setup
HostImported ==
  /\ host.loader = "importing"
  /\ host' = IF host.mounted /\ host.p5InstanceRef = 0
             THEN [host EXCEPT !.p5InstanceRef = 1, !.loader = "created"]
             ELSE [host EXCEPT !.loader = "done"]
  /\ UNCHANGED <<sketchVars, hostRest>>

\* import('p5') rejects, or the constructor throws: no instance
HostImportFailed ==
  /\ host.loader = "importing"
  /\ host' = [host EXCEPT !.loader = "done"]
  /\ UNCHANGED <<sketchVars, hostRest>>

\* 200 ms after the creation: setIsLoading(false) and p5InstanceRef.current.redraw()
HostSettled ==
  /\ host.loader = "created"
  /\ host' = [host EXCEPT !.loader = "done"]
  /\ IF host.mounted /\ host.p5InstanceRef # 0
     THEN /\ DrawFrameOn(fields, TimeDeltas, {Analysis[n] : n \in DOMAIN Snapshots})
          /\ UNCHANGED frameCount
     ELSE UNCHANGED sketchVars
  /\ UNCHANGED hostRest

\* the cleanup of the isActive effect calls deactivate(), then the effect
\* calls activate(): capture is stopped, so a setup is always scheduled
DeactivateThenActivate ==
  /\ Len(tasks) < MaxSetups
  /\ isP5StateActive' = TRUE
  /\ StopAudioProcessing
  /\ fields' = [ResetPauseFields(StopAudioFields(ResetPauseFields(fields)))
                  EXCEPT !.silenceFrames = 0]
  /\ tasks' = Append(Withdrawn, [pc |-> "timer", ctx |-> 0, fresh |-> TRUE])
  /\ lastLifecycle' = "activate"
  /\ UNCHANGED <<audioContext, contexts, analyser, frequencyData, removed,
                 frameCount, vertex>>

\* the parent renders the component with another isActive: the cleanup of the
\* effect's last run (it deactivates if that run saw an instance and
\* isActive false), then the effect itself, which returns early without an
\* instance
HostRender ==
  /\ host.mounted
  /\ host' = [host EXCEPT !.isActive = ~host.isActive,
                          !.effectInstance = host.p5InstanceRef]
  /\ IF host.p5InstanceRef = 0
     THEN UNCHANGED sketchVars
     ELSE IF host.isActive
     THEN DeactivateCall
     ELSE IF host.effectInstance # 0
     THEN DeactivateThenActivate
     ELSE ActivateCall
  /\ UNCHANGED hostRest

\* p.cleanup() of the mount effect's cleanup, then the deactivate() of the
\* isActive effect's cleanup
CleanupThenDeactivate ==
  /\ isP5StateActive' = FALSE
  /\ StopAudioProcessing
  /\ fields' = StopAudioFields(ResetPauseFields(StopAudioFields(fields)))
  /\ contexts' = IF ContextNotClosed
                 THEN [contexts EXCEPT ![audioContext].closing = TRUE]
                 ELSE contexts
  /\ audioContext' = IF ContextNotClosed THEN 0 ELSE audioContext
  /\ removed' = TRUE
  /\ tasks' = Withdrawn
  /\ lastLifecycle' = "deactivate"
  /\ UNCHANGED <<analyser, frequencyData, frameCount, vertex>>

\* the component unmounts: the cleanups of both effects, in the order the
\* effects were declared
HostUnmount ==
  /\ host.mounted
  /\ host' = [host EXCEPT !.mounted = FALSE, !.p5InstanceRef = 0,
                          !.effectInstance = 0]
  /\ IF host.p5InstanceRef = 0
     THEN UNCHANGED sketchVars
     ELSE IF host.effectInstance # 0 /\ ~host.isActive
     THEN CleanupThenDeactivate
     ELSE CleanupCall
  /\ UNCHANGED hostRest

\* a tick of the draw loop of the sketch the host created
HostFrame == host.p5InstanceRef # 0 /\ Frame

InitHost ==
  /\ SketchInit
  /\ \E active \in BOOLEAN : host = HostMounted(active)
  /\ blob = BlobMounted(FALSE, 0)
  /\ hook = HookUnmounted
  /\ mock = <<>>
  /\ vapi = VapiUnmounted

NextHost ==
  \/ HostTimer
  \/ HostImported
  \/ HostImportFailed
  \/ HostSettled
  \/ HostRender
  \/ HostUnmount
  \/ HostFrame
  \/ \E t \in DOMAIN tasks : SetupStart(t)
  \/ \E t \in DOMAIN tasks : GrantReconnect(t)
  \/ \E t \in DOMAIN tasks : DenyReconnect(t)
  \/ \E t \in DOMAIN tasks : ResumeSettled(t)
  \/ \E t \in DOMAIN tasks : GrantSetup(t)
  \/ \E t \in DOMAIN tasks : DenySetup(t)
  \/ \E t \in DOMAIN tasks : CloseSettled(t)

SpecHost == InitHost /\ [][NextHost]_vars

(***************************************************************************)
(* C21: once the sketch instance exists, its active flag equals the        *)
(* host's latest isActive prop, whatever the order of the prop changes and *)
(* the asynchronous creation of the instance: also when isActive is true   *)
(* at mount, or changes before the instance has finished loading.          *)
(***************************************************************************)
C21_ActiveFlagFollowsProp ==
  (host.mounted /\ host.p5InstanceRef # 0) => (isP5StateActive = host.isActive)

(***************************************************************************)
(* The component of the host-driven sketch (components/AudioReactiveBlob): *)
(* the sketch owns no capture; effects keyed on the props isActive and     *)
(* averageVolume call updateActivity and updateVolume on the instance.     *)
(***************************************************************************)
MaxHoldFrames == 40

MaxVolumeRenders == 3

volumeLerpFactor == 150

\* the averageVolume the parent passes, in thousandths: the range of a volume
\* level, and a value beyond it
VolumeLevels == {0, 200, 600, 1000, 1200}

blobRest == <<host, hook, mock, vapi>>

\* p.updateVolume(volume) on the smoothed level level
UpdateVolume(level, volume) ==
  IF volume >= 0 /\ volume <= 1000 THEN Lerp(level, volume, volumeLerpFactor) ELSE level

\* import('p5') resolves and the instance is created
BlobImported ==
  /\ blob.loader = "importing"
  /\ blob' = IF blob.mounted /\ blob.p5InstanceRef = 0
             THEN [blob EXCEPT !.p5InstanceRef = 1, !.loader = "done"]
             ELSE [blob EXCEPT !.loader = "done"]
  /\ UNCHANGED <<sketchVars, blobRest>>

\* import('p5') rejects, or the constructor throws
BlobImportFailed ==
  /\ blob.loader = "importing"
  /\ blob' = [blob EXCEPT !.loader = "done"]
  /\ UNCHANGED <<sketchVars, blobRest>>

\* the parent renders with another isActive: the effect keyed on it runs
BlobRenderActive ==
  /\ blob.mounted
  /\ blob' = [blob EXCEPT !.isActive = ~blob.isActive,
                          !.isVisuallyActive =
                             IF blob.p5InstanceRef # 0 THEN ~blob.isActive ELSE @]
  /\ UNCHANGED <<sketchVars, blobRest>>

\* the parent renders with another averageVolume: the effect keyed on it runs
\* once and calls updateVolume if the instance exists
BlobRenderVolume ==
  /\ blob.mounted
  /\ blob.volumeRenders < MaxVolumeRenders
  /\ \E volume \in VolumeLevels \ {blob.averageVolume} :
       blob' = [blob EXCEPT !.averageVolume = volume,
                            !.framesHeld = 0,
                            !.volumeRenders = @ + 1,
                            !.smoothedVolumeLevel =
                               IF blob.p5InstanceRef # 0
                               THEN UpdateVolume(@, volume) ELSE @]
  /\ UNCHANGED <<sketchVars, blobRest>>

\* a tick of the draw loop while the props stay as they are: updateState
\* leaves smoothedVolumeLevel alone, and no effect runs
BlobFrame ==
  /\ blob.mounted
  /\ blob.p5InstanceRef # 0
  /\ blob.framesHeld < MaxHoldFrames
  /\ blob' = [blob EXCEPT !.framesHeld = @ + 1]
  /\ UNCHANGED <<sketchVars, blobRest>>

\* the component unmounts: p.cleanup() removes the sketch
BlobUnmount ==
  /\ blob.mounted
  /\ blob' = [blob EXCEPT !.mounted = FALSE, !.p5InstanceRef = 0]
  /\ UNCHANGED <<sketchVars, blobRest>>

InitBlob ==
  /\ SketchInit
  /\ host = HostLoaded
  /\ \E active \in BOOLEAN, volume \in VolumeLevels : blob = BlobMounted(active, volume)
  /\ hook = HookUnmounted
  /\ mock = <<>>
  /\ vapi = VapiUnmounted

NextBlob ==
  \/ BlobImported
  \/ BlobImportFailed
  \/ BlobRenderActive
  \/ BlobRenderVolume
  \/ BlobFrame
  \/ BlobUnmount

SpecBlob == InitBlob /\ [][NextBlob]_vars

(***************************************************************************)
(* C22: in the sketch that does not own its capture the smoothed volume    *)
(* level follows the averageVolume prop: once the host has held the prop   *)
(* at a value v in [0, 1] for MaxHoldFrames frames, the smoothed level is  *)
(* within a hundredth of v.                                                *)
(***************************************************************************)
C22_SmoothedVolumeConverges ==
  (/\ blob.mounted
   /\ blob.p5InstanceRef # 0
   /\ blob.averageVolume <= 1000
   /\ blob.framesHeld = MaxHoldFrames)
  => Abs(blob.smoothedVolumeLevel - blob.averageVolume) <= 10

(***************************************************************************)
(* MockVapiService: the simulated voice service.  mock holds every         *)
(* instance created; an instance keeps, besides its fields, the timers of  *)
(* its calls in flight (calls, in the order they were started), the texts  *)
(* it has spoken and the results its askNextQuestion calls returned.       *)
(***************************************************************************)
MaxCalls == 6

\* the texts: their length in characters and their expectedDuration (ms)
sampleQuestions ==
  << [text |-> "question1", length |-> 65, expectedDuration |-> 4000],
     [text |-> "question2", length |-> 32, expectedDuration |-> 3000],
     [text |-> "question3", length |-> 126, expectedDuration |-> 7000],
     [text |-> "question4", length |-> 74, expectedDuration |-> 5000],
     [text |-> "question5", length |-> 83, expectedDuration |-> 5000] >>

introMessage == [text |-> "intro", length |-> 243, expectedDuration |-> 10000]

closingMessage == [text |-> "closing", length |-> 214, expectedDuration |-> 8000]

\* a text a caller passes to speakText directly, with the default duration
shortMessage == [text |-> "short", length |-> 2, expectedDuration |-> 3000]

\* Math.max(duration, Math.min(text.length * 100, 15000))
CalculatedDuration(message) ==
  Max2(message.expectedDuration, Min2(message.length * 100, 15000))

\* new MockVapiService(), with the handlers a hook registers on it or none
NewService(handlers, active) ==
  [currentQuestion |-> 0, speechState |-> "idle", currentText |-> "",
   isInitialized |-> FALSE, onStateChange |-> handlers, handlerIsActive |-> active,
   cleaned |-> FALSE, calls |-> <<>>, started |-> 0, spoken |-> <<>>,
   results |-> <<>>]

\* the 500 ms timer of initialize(); next names what the awaiting caller does,
\* hooked whether the hook awaits the call
InitializeCall(next, hooked) ==
  [kind |-> "initialize", text |-> "", duration |-> 500, next |-> next,
   hooked |-> hooked, id |-> 0]

\* setSpeechState(state) on instance s of the world w = [hook, mock]: the
\* field, then the hook's onStateChange handler if it is registered
SetSpeechState(w, s, state) ==
  LET m == [w.mock EXCEPT ![s].speechState = state]
  IN  IF ~w.mock[s].onStateChange
      THEN [w EXCEPT !.mock = m]
      ELSE [hook |-> [w.hook EXCEPT
                        !.serviceState = state,
                        !.isActive = IF state = "speaking" THEN TRUE
                                     ELSE IF state = "idle" /\ w.mock[s].handlerIsActive
                                     THEN FALSE
                                     ELSE @],
            mock |-> m]

\* setCurrentText(text) on instance s, then the hook's onTextChange handler
SetCurrentText(w, s, text) ==
  [hook |-> IF w.mock[s].onStateChange
            THEN [w.hook EXCEPT !.currentText = text] ELSE w.hook,
   mock |-> [w.mock EXCEPT ![s].currentText = text]]

\* speakText(text, duration) up to its timer
SpeakText(w, s, message, next, hooked) ==
  LET spoke == SetCurrentText(SetSpeechState(w, s, "speaking"), s, message.text)
  IN  [spoke EXCEPT
         !.mock[s].started = @ + 1,
         !.mock[s].spoken = Append(@, message.text),
         !.mock[s].calls =
            Append(@, [kind |-> "speak", text |-> message.text,
                       duration |-> CalculatedDuration(message), next |-> next,
                       hooked |-> hooked, id |-> w.mock[s].started + 1])]

\* cleanup() of an instance
ServiceCleanup(service) ==
  [service EXCEPT !.onStateChange = FALSE, !.currentText = "",
                  !.speechState = "idle", !.cleaned = TRUE]

\* React commits the state the task has set: the effect that copies
\* microphoneState into micStateRef, and the service effect, whose dependency
\* list is [isActive, setAISpeakingState]: its cleanup, then a new instance
\* with new handlers, and initialize()
Rendered(w) ==
  IF w.hook.mounted /\ w.hook.isActive # w.hook.effectIsActive
  THEN [hook |-> [w.hook EXCEPT !.effectIsActive = w.hook.isActive,
                                !.microphoneState = "off",
                                !.micStateRef = "off",
                                !.serviceRef = Len(w.mock) + 1],
        mock |-> Append([w.mock EXCEPT ![w.hook.serviceRef] = ServiceCleanup(@)],
                        [NewService(TRUE, w.hook.isActive) EXCEPT
                           !.calls = <<InitializeCall("none", FALSE)>>])]
  ELSE [w EXCEPT !.hook.micStateRef = w.hook.microphoneState]

World == [hook |-> hook, mock |-> mock]

\* the step leaves the hook and the services as w, once React has rendered
Becomes(w) ==
  /\ hook' = Rendered(w).hook
  /\ mock' = Rendered(w).mock
  /\ UNCHANGED <<sketchVars, host, blob, vapi>>

\* the instances a caller can reach: the one in serviceRef, or a service
\* used without the hook
Reachable == IF hook.mounted THEN {hook.serviceRef} ELSE DOMAIN mock

\* startAssessment() of the service
ServiceStartAssessment(w, s, hooked) ==
  IF ~w.mock[s].isInitialized
  THEN [w EXCEPT !.mock[s].calls = Append(@, InitializeCall("start", hooked))]
  ELSE SpeakText([w EXCEPT !.mock[s].currentQuestion = 0], s, introMessage,
                 "start", hooked)

\* askNextQuestion() of the service, up to the timer of its speakText
ServiceAskNextQuestion(w, s, hooked) ==
  IF w.mock[s].currentQuestion >= Len(sampleQuestions)
  THEN SpeakText(w, s, closingMessage, "closing", hooked)
  ELSE SpeakText(w, s, sampleQuestions[w.mock[s].currentQuestion + 1], "ask", hooked)

\* a caller calls startAssessment()
StartAssessmentCalled ==
  \E s \in Reachable :
    /\ mock[s].started + Len(mock[s].calls) < MaxCalls
    /\ Becomes(ServiceStartAssessment(World, s, FALSE))

\* a caller calls askNextQuestion()
AskNextQuestionCalled ==
  \E s \in Reachable :
    /\ mock[s].started < MaxCalls
    /\ Becomes(ServiceAskNextQuestion(World, s, FALSE))

\* a caller calls speakText(text) with a short text
SpeakTextCalled ==
  \E s \in Reachable :
    /\ mock[s].started < MaxCalls
    /\ Becomes(SpeakText(World, s, shortMessage, "none", FALSE))

\* the timers of an instance fire in the order they fall due: a timer started
\* later fires before an earlier one only if its duration is shorter
Due(s, k) ==
  \A i \in 1..(k - 1) : mock[s].calls[k].duration < mock[s].calls[i].duration

\* calls without the k-th
Without(calls, k) == SubSeq(calls, 1, k - 1) \o SubSeq(calls, k + 1, Len(calls))

\* what the service method awaiting the call does when its promise resolves
Returned(w, s, call) ==
  CASE call.next = "ask" ->
         [w EXCEPT !.mock[s].currentQuestion = @ + 1,
                   !.mock[s].results =
                      Append(@, [isComplete |-> FALSE,
                                 questionNumber |-> w.mock[s].currentQuestion + 1])]
    [] call.next = "closing" ->
         [SetSpeechState(w, s, "idle") EXCEPT
            !.mock[s].results = Append(@, [isComplete |-> TRUE, questionNumber |-> 0])]
    [] OTHER -> w

\* the service method returns; the finally block of the hook function that
\* awaited it clears isProcessingRef
Resumed(w, s, call) ==
  IF call.hooked
  THEN [Returned(w, s, call) EXCEPT !.hook.isProcessingRef = FALSE]
  ELSE Returned(w, s, call)

\* the timer of call k of instance s fires
TimerFired(s, k) ==
  LET call == mock[s].calls[k]
      left == [World EXCEPT !.mock[s].calls = Without(@, k)]
  IN  /\ Due(s, k)
      /\ IF call.kind = "initialize"
         THEN LET ready == SetSpeechState([left EXCEPT !.mock[s].isInitialized = TRUE],
                                          s, "idle")
              IN  Becomes(IF call.next = "start"
                          THEN SpeakText([ready EXCEPT !.mock[s].currentQuestion = 0],
                                         s, introMessage, "start", call.hooked)
                          ELSE ready)
         ELSE Becomes(Resumed(IF left.mock[s].speechState = "speaking"
                              THEN SetSpeechState(left, s, "idle") ELSE left,
                              s, call))

\* a timer of a service fires
ServiceTimer == \E s \in DOMAIN mock : \E k \in DOMAIN mock[s].calls : TimerFired(s, k)

\* a caller calls initialize()
InitializeCalled ==
  \E s \in Reachable :
    /\ ~mock[s].isInitialized
    /\ \A k \in DOMAIN mock[s].calls : mock[s].calls[k].kind # "initialize"
    /\ Becomes([World EXCEPT !.mock[s].calls =
                                 Append(@, InitializeCall("none", FALSE))])

InitService ==
  /\ SketchInit
  /\ host = HostLoaded
  /\ blob = BlobMounted(FALSE, 0)
  /\ hook = HookUnmounted
  /\ mock = <<NewService(FALSE, FALSE)>>
  /\ vapi = VapiUnmounted

NextService ==
  \/ InitializeCalled
  \/ StartAssessmentCalled
  \/ AskNextQuestionCalled
  \/ SpeakTextCalled
  \/ ServiceTimer

SpecService == InitService /\ [][NextService]_vars

\* the questions among the texts an instance has spoken, as indices
RECURSIVE QuestionsSpoken(_)
QuestionsSpoken(spoken) ==
  IF spoken = <<>> THEN <<>>
  ELSE LET asked == {q \in DOMAIN sampleQuestions : sampleQuestions[q].text = Head(spoken)}
       IN  (IF asked = {} THEN <<>> ELSE <<CHOOSE q \in asked : TRUE>>)
           \o QuestionsSpoken(Tail(spoken))

(***************************************************************************)
(* C25: whatever the interleaving of askNextQuestion() calls, overlapping  *)
(* ones included, within one assessment the questions are spoken in        *)
(* order, none twice and none skipped, currentQuestion never exceeds the   *)
(* number of questions, and a call returns isComplete: true only once all  *)
(* the questions have been asked.                                          *)
(***************************************************************************)
C25_QuestionsInOrder ==
  \A s \in DOMAIN mock :
    ("intro" \notin {mock[s].spoken[i] : i \in DOMAIN mock[s].spoken}) =>
      /\ QuestionsSpoken(mock[s].spoken)
           = [q \in 1..Len(QuestionsSpoken(mock[s].spoken)) |-> q]
      /\ mock[s].currentQuestion <= Len(sampleQuestions)
      /\ \A r \in DOMAIN mock[s].results :
           mock[s].results[r].isComplete
             => Len(QuestionsSpoken(mock[s].spoken)) = Len(sampleQuestions)

\* the speakText call of instance s started last has its timer still pending
LatestSpeaking(s) ==
  \E k \in DOMAIN mock[s].calls :
    mock[s].calls[k].kind = "speak" /\ mock[s].calls[k].id = mock[s].started

(***************************************************************************)
(* C26: when speakText() calls overlap, the instance stays SPEAKING until  *)
(* the duration of the call started last has elapsed: the timer of an      *)
(* earlier call never moves it to IDLE while a later call is speaking.     *)
(***************************************************************************)
C26_SpeakingUntilLatestCallEnds ==
  [][\A s \in DOMAIN mock :
       (/\ LatestSpeaking(s) /\ mock[s].speechState = "speaking"
        /\ LatestSpeaking(s)' /\ mock'[s].started = mock[s].started
        /\ mock'[s].isInitialized = mock[s].isInitialized
        /\ mock'[s].cleaned = mock[s].cleaned)
       => mock'[s].speechState = "speaking"]_vars

(***************************************************************************)
(* The useVapiService hook: microphone state, the service it creates in    *)
(* an effect, and toggleMicrophone, the one function it hands out.         *)
(***************************************************************************)
MaxClicks == 3

\* the hook after the effects of its first render: a service with the hook's
\* handlers, its initialize() under way
HookMounted == [HookUnmounted EXCEPT !.mounted = TRUE, !.serviceRef = 1]

ServiceMounted ==
  [NewService(TRUE, FALSE) EXCEPT !.calls = <<InitializeCall("none", FALSE)>>]

\* the try block of the hook's startAssessment; serviceState is the one of
\* the render the function was created in
TryStartAssessment(w) ==
  LET marked == [w EXCEPT !.hook.isProcessingRef = TRUE, !.hook.hasInteracted = TRUE]
  IN  IF w.hook.toggleSaw.serviceState = "idle"
      THEN ServiceStartAssessment(marked, w.hook.serviceRef, TRUE)
      ELSE [marked EXCEPT !.hook.isProcessingRef = FALSE]

\* the hook's startAssessment(), up to its first await
HookStartAssessment(w) ==
  IF w.hook.serviceRef = 0 \/ w.hook.isProcessingRef
  THEN w
  ELSE IF w.hook.micStateRef # "on"
  THEN [w EXCEPT !.hook.gum = "start"]
  ELSE TryStartAssessment(w)

\* the hook's askNextQuestion(), up to its await
HookAskNextQuestion(w) ==
  IF \/ w.hook.serviceRef = 0
     \/ w.hook.toggleSaw.serviceState # "idle"
     \/ w.hook.isProcessingRef
     \/ w.hook.micStateRef # "on"
  THEN w
  ELSE ServiceAskNextQuestion([w EXCEPT !.hook.isProcessingRef = TRUE],
                              w.hook.serviceRef, TRUE)

\* toggleMicrophone() up to its await: ignored while isProcessingRef is set;
\* with the microphone off it asks for permission, otherwise it turns the
\* microphone off and its finally block sets the 300 ms timer
ToggleMicrophone ==
  /\ hook.mounted
  /\ hook.clicks < MaxClicks
  /\ LET clicked == [World EXCEPT !.hook.clicks = @ + 1]
         saw == [hasInteracted |-> hook.hasInteracted,
                 serviceState |-> hook.serviceState]
     IN  Becomes(IF hook.isProcessingRef
                 THEN clicked
                 ELSE IF hook.micStateRef = "off"
                 THEN [clicked EXCEPT !.hook.isProcessingRef = TRUE,
                                      !.hook.toggleSaw = saw,
                                      !.hook.gum = "toggle"]
                 ELSE [clicked EXCEPT !.hook.isProcessingRef = TRUE,
                                      !.hook.toggleSaw = saw,
                                      !.hook.microphoneState = "off",
                                      !.hook.isActive = FALSE,
                                      !.hook.resetTimer = TRUE])

\* getUserMedia resolves with an active stream: activateMicrophone sets the
\* microphone ON and returns true; toggleMicrophone sets its 200 ms timer and,
\* in its finally block, its 300 ms timer
MicrophoneGranted ==
  /\ hook.gum # "none"
  /\ LET on == [World EXCEPT !.hook.gum = "none",
                             !.hook.microphoneState = IF hook.mounted THEN "on" ELSE @,
                             !.hook.micStateRef = IF hook.mounted THEN "on" ELSE @]
     IN  Becomes(IF hook.gum = "toggle"
                 THEN [on EXCEPT !.hook.startTimer = TRUE, !.hook.resetTimer = TRUE]
                 ELSE TryStartAssessment(on))

\* getUserMedia rejects: activateMicrophone returns false
MicrophoneDenied ==
  /\ hook.gum # "none"
  /\ LET off == [World EXCEPT !.hook.gum = "none", !.hook.microphoneState = "off"]
     IN  Becomes(IF hook.gum = "toggle" THEN [off EXCEPT !.hook.resetTimer = TRUE]
                 ELSE off)

\* the 200 ms timer of toggleMicrophone: start the assessment, or go on with it
StartTimerFired ==
  /\ hook.startTimer
  /\ LET fired == [World EXCEPT !.hook.startTimer = FALSE]
     IN  Becomes(IF \/ ~hook.toggleSaw.hasInteracted
                    \/ mock[hook.serviceRef].currentQuestion = 0
                 THEN HookStartAssessment(fired)
                 ELSE IF hook.toggleSaw.serviceState = "idle"
                 THEN HookAskNextQuestion(fired)
                 ELSE fired)

\* the 300 ms timer of toggleMicrophone, due after the 200 ms one
ResetTimerFired ==
  /\ hook.resetTimer
  /\ ~hook.startTimer
  /\ Becomes([World EXCEPT !.hook.resetTimer = FALSE, !.hook.isProcessingRef = FALSE])

\* the component unmounts: the cleanup of the service effect
UnmountHook ==
  /\ hook.mounted
  /\ Becomes([World EXCEPT !.hook.mounted = FALSE,
                           !.mock[hook.serviceRef] = ServiceCleanup(@)])

InitHook ==
  /\ SketchInit
  /\ host = HostLoaded
  /\ blob = BlobMounted(FALSE, 0)
  /\ hook = HookMounted
  /\ mock = <<ServiceMounted>>
  /\ vapi = VapiUnmounted

NextHook ==
  \/ ToggleMicrophone
  \/ MicrophoneGranted
  \/ MicrophoneDenied
  \/ StartTimerFired
  \/ ResetTimerFired
  \/ ServiceTimer
  \/ UnmountHook

\* timers that are set fire
SpecHook ==
  /\ InitHook
  /\ [][NextHook]_vars
  /\ WF_vars(StartTimerFired)
  /\ WF_vars(ResetTimerFired)
  /\ WF_vars(ServiceTimer)

\* toggleMicrophone has turned the microphone on and scheduled the start
MicrophoneTurnedOn == hook.startTimer

\* a service of the hook has been asked to start and has spoken the introduction
IntroductionSpoken ==
  \E s \in DOMAIN mock : \E i \in DOMAIN mock[s].spoken : mock[s].spoken[i] = "intro"

(***************************************************************************)
(* C23: after toggleMicrophone() has turned the microphone on (permission  *)
(* granted) the assessment starts by itself: the service is asked to start *)
(* and speaks the introduction, unless the component unmounts first.       *)
(***************************************************************************)
C23_AssessmentStartsAfterToggle ==
  MicrophoneTurnedOn ~> (IntroductionSpoken \/ ~hook.mounted)

(***************************************************************************)
(* The service effect under the calls the hook makes on its service once   *)
(* it is past its guards.                                                  *)
(***************************************************************************)
MaxServices == 3

MaxEffectCalls == 2

\* few services yet, and none of them with many calls
EffectQuiet ==
  /\ Len(mock) < MaxServices
  /\ \A s \in DOMAIN mock : mock[s].started + Len(mock[s].calls) < MaxEffectCalls

\* the hook's startAssessment() reaches the service
EffectStartAssessment == EffectQuiet /\ StartAssessmentCalled

\* the hook's askNextQuestion() reaches the service
EffectAskNextQuestion == EffectQuiet /\ AskNextQuestionCalled

NextEffect ==
  \/ EffectStartAssessment
  \/ EffectAskNextQuestion
  \/ ServiceTimer
  \/ UnmountHook

SpecEffect == InitHook /\ [][NextEffect]_vars

MaxBreathFrames == 93

BreathFrame ==
  /\ Pending = {}
  /\ frameCount < MaxBreathFrames
  /\ frameCount' = frameCount + 1
  /\ DrawFrameWith({1000}, IF frameCount >= MaxBreathFrames - FreeFrames
                           THEN {Analysis[n] : n \in DOMAIN Snapshots}
                           ELSE {Analysis.silence})

\* deactivate() late in the silence
BreathDeactivate ==
  /\ frameCount >= MaxBreathFrames - FreeFrames
  /\ lastLifecycle = "activate"
  /\ CycleDeactivate

\* activate() late in the silence, on an active or a deactivated sketch
BreathActivate ==
  /\ frameCount >= MaxBreathFrames - FreeFrames
  /\ Pending = {}
  /\ Activate

NextBreathing ==
  \/ lastLifecycle = "none" /\ Activate
  \/ BreathFrame
  \/ BreathDeactivate
  \/ BreathActivate
  \/ \E t \in DOMAIN tasks : SetupStart(t)
  \/ \E t \in DOMAIN tasks : ResumeSettled(t)
  \/ \E t \in DOMAIN tasks : GrantSetup(t)
  \/ \E t \in DOMAIN tasks : DenySetup(t)
  \/ \E t \in DOMAIN tasks : CloseSettled(t)

SpecBreathing == Init /\ [][NextBreathing]_vars

\* a frame is drawn
FrameDrawn == frameCount' # frameCount

\* the frame drawn is a silent one of an active sketch
SilentFrameDrawn ==
  FrameDrawn /\ isP5StateActive /\ fields'.smoothedOverallLevel < silenceThreshold

(***************************************************************************)
(* C27: at the end of a frame the breathing flag is set only if the sketch *)
(* is active and the level has been below the silence threshold for at     *)
(* least framesForBreathing consecutive frames (silenceFrames counts the   *)
(* silent frames in a row); a frame that is not silent, activate() and     *)
(* deactivate() clear the flag.                                            *)
(***************************************************************************)
C27_BreathingOnlyAfterSilence ==
  [][/\ (FrameDrawn /\ fields'.isBreathing)
          => (SilentFrameDrawn /\ fields'.silenceFrames >= framesForBreathing)
     /\ SilentFrameDrawn => fields'.silenceFrames = fields.silenceFrames + 1
     /\ (FrameDrawn /\ ~SilentFrameDrawn)
          => (~fields'.isBreathing /\ fields'.silenceFrames = 0)
     /\ (Activate \/ Deactivate) => ~fields'.isBreathing
     /\ Activate => fields'.silenceFrames = 0]_vars

\* the sketch breathes after framesForBreathing silent frames
C27_BreathingAfterSilence ==
  /\ fields.isBreathing
  /\ isP5StateActive
  /\ fields.silenceFrames >= framesForBreathing
  /\ frameCount >= framesForBreathing

(***************************************************************************)
(* The transient under a loud input: the sketch is activated and its setup *)
(* settles; every frame then delivers the loud snapshot (any snapshot in   *)
(* the last FreeFrames frames), and the sketch may be deactivated and      *)
(* activated again between any two frames.                                 *)
(***************************************************************************)
MaxAhaFrames == 24

AhaFrame ==
  /\ Pending = {}
  /\ frameCount < MaxAhaFrames
  /\ frameCount' = frameCount + 1
  /\ DrawFrameWith({1000}, IF frameCount >= MaxAhaFrames - FreeFrames
                           THEN {Analysis[n] : n \in DOMAIN Snapshots}
                           ELSE {Analysis.loud})

NextAha ==
  \/ lastLifecycle = "none" /\ Activate
  \/ lastLifecycle = "activate" /\ CycleDeactivate
  \/ lastLifecycle = "deactivate" /\ Pending = {} /\ Activate
  \/ AhaFrame
  \/ \E t \in DOMAIN tasks : SetupStart(t)
  \/ \E t \in DOMAIN tasks : ResumeSettled(t)
  \/ \E t \in DOMAIN tasks : GrantSetup(t)
  \/ \E t \in DOMAIN tasks : DenySetup(t)
  \/ \E t \in DOMAIN tasks : CloseSettled(t)

SpecAha == Init /\ [][NextAha]_vars

(***************************************************************************)
(* C28: at the end of every frame the transient flag isAhaMoment is true   *)
(* exactly when ahaTimer is greater than 0; a frame that starts with the   *)
(* flag set does not trigger the transient again (the timer goes down by   *)
(* one); the timer is below ahaDuration at the end of a frame, so the flag *)
(* clears within ahaDuration frames; and activate() and deactivate() leave *)
(* the flag and the timer as they are.                                     *)
(***************************************************************************)
C28_TransientFlagFollowsTimer ==
  [][/\ fields'.isAhaMoment <=> fields'.ahaTimer > 0
     /\ fields'.ahaTimer < ahaDuration
     /\ (FrameDrawn /\ fields.isAhaMoment) => fields'.ahaTimer = fields.ahaTimer - 1
     /\ ~FrameDrawn => /\ fields'.isAhaMoment = fields.isAhaMoment
                       /\ fields'.ahaTimer = fields.ahaTimer]_vars

\* the sketch was deactivated while the transient flag was set, and the timer
\* has since run down to its last frame
C28_TransientRunsOutDeactivated ==
  /\ fields.isAhaMoment
  /\ fields.ahaTimer = 1
  /\ ~isP5StateActive

(***************************************************************************)
(* api/vapiService.js: the useVapiService hook over the voice SDK.  The    *)
(* SDK's call is "none", "starting" (start() was invoked and has not       *)
(* settled), "live" (joined) or "ending" (stop() was invoked on a live     *)
(* call and call-end has not been emitted).  What stop() does to a call    *)
(* that is still starting is the SDK's: it gives the call up, or the call  *)
(* goes on to join and call-start arrives late.                            *)
(***************************************************************************)
vapiRest == <<sketchVars, host, blob, hook, mock>>

\* the levels a volume-level event carries, in thousandths
VapiVolumeLevels == {0, 500}

\* the texts a transcript message carries
VapiTexts == {"Hello", "How are you today?"}

\* the mount effect: without an API key an error, otherwise new Vapi(apiKey)
\* and the handlers, which close over the callStatus of this render
VapiMount ==
  /\ ~vapi.mounted
  /\ vapi = VapiUnmounted
  /\ \E apiKey \in BOOLEAN :
       vapi' = IF ~apiKey
               THEN [vapi EXCEPT !.mounted = TRUE, !.error = TRUE, !.callStatus = "error"]
               ELSE [vapi EXCEPT !.mounted = TRUE, !.vapiRef = TRUE,
                                 !.handlerCallStatus = vapi.callStatus,
                                 !.handlerIsSpeaking = vapi.isSpeaking,
                                 !.handlerPreSpeechTranscript = vapi.preSpeechTranscript]
  /\ UNCHANGED vapiRest

\* startVapiCall, up to its await
StartVapiCall(v, assistantId) ==
  IF ~assistantId \/ ~v.vapiRef
  THEN [v EXCEPT !.error = TRUE, !.callStatus = "error", !.stopped = FALSE]
  ELSE IF v.callStatus \notin {"inactive", "error"}
  THEN [v EXCEPT !.stopped = FALSE]
  ELSE [v EXCEPT !.callStatus = "connecting", !.error = FALSE,
                 !.isStoppingRef = FALSE, !.stopped = FALSE,
                 !.call = IF @ = "none" THEN "starting" ELSE @]

\* stopVapiCall; given is whether the SDK gives up a call that is still starting
StopVapiCall(v, given) ==
  IF ~v.vapiRef \/ v.callStatus = "inactive"
  THEN v
  ELSE [v EXCEPT !.isStoppingRef = TRUE, !.callStatus = "inactive", !.stopped = TRUE,
                 !.call = CASE @ = "live" -> "ending"
                            [] @ = "starting" /\ given -> "none"
                            [] OTHER -> @]

\* toggleVapiCall, the one control the hook returns
ToggleVapiCall ==
  /\ vapi.mounted
  /\ \E assistantId \in BOOLEAN, given \in BOOLEAN :
       vapi' = IF vapi.callStatus \in {"inactive", "error"}
               THEN StartVapiCall(vapi, assistantId)
               ELSE StopVapiCall(vapi, given)
  /\ UNCHANGED vapiRest

\* await vapiRef.current.start(assistantId) rejects: the catch block
StartRejected ==
  /\ vapi.mounted
  /\ vapi.call = "starting"
  /\ vapi' = [vapi EXCEPT !.call = "none", !.error = TRUE, !.callStatus = "error",
                          !.isSpeaking = FALSE, !.averageVolumeLevel = 0]
  /\ UNCHANGED vapiRest

\* the 'call-start' handler
CallStart ==
  /\ vapi.mounted
  /\ vapi.call = "starting"
  /\ vapi' = [vapi EXCEPT !.call = "live", !.callStatus = "connected",
                          !.recordingState = "active", !.error = FALSE,
                          !.isStoppingRef = FALSE]
  /\ UNCHANGED vapiRest

\* the 'call-end' handler
CallEnd ==
  /\ vapi.mounted
  /\ vapi.call \in {"live", "ending"}
  /\ vapi' = [vapi EXCEPT !.call = "none",
                          !.callStatus = IF vapi.isStoppingRef THEN @ ELSE "inactive",
                          !.isSpeaking = FALSE, !.recordingState = "inactive",
                          !.transcript = "", !.averageVolumeLevel = 0,
                          !.error = FALSE, !.isStoppingRef = FALSE]
  /\ UNCHANGED vapiRest

\* the 'speech-start' handler
SpeechStart ==
  /\ vapi.mounted
  /\ vapi.call = "live"
  /\ vapi' = [vapi EXCEPT !.isSpeaking = TRUE, !.recordingState = "paused",
                          !.transcript = IF vapi.handlerPreSpeechTranscript # ""
                                         THEN vapi.handlerPreSpeechTranscript ELSE @]
  /\ UNCHANGED vapiRest

\* the 'speech-end' handler: callStatus is the one the handler closed over
SpeechEnd ==
  /\ vapi.mounted
  /\ vapi.call = "live"
  /\ vapi' = [vapi EXCEPT !.isSpeaking = FALSE,
                          !.recordingState =
                             IF vapi.vapiRef /\ vapi.handlerCallStatus = "connected"
                             THEN "active" ELSE @]
  /\ UNCHANGED vapiRest

\* the 'message' handler on a transcript of the assistant: isSpeaking is the one
\* the handler closed over
TranscriptMessage ==
  /\ vapi.mounted
  /\ vapi.call = "live"
  /\ \E text \in VapiTexts, final \in BOOLEAN :
       vapi' = IF ~vapi.handlerIsSpeaking /\ ~final
               THEN [vapi EXCEPT !.preSpeechTranscript = text]
               ELSE IF vapi.handlerIsSpeaking
               THEN [vapi EXCEPT !.transcript = text]
               ELSE [vapi EXCEPT !.preSpeechTranscript = text]
  /\ UNCHANGED vapiRest

\* the 'volume-level' handler
VolumeLevel ==
  /\ vapi.mounted
  /\ vapi.call = "live"
  /\ \E level \in VapiVolumeLevels : vapi' = [vapi EXCEPT !.averageVolumeLevel = level]
  /\ UNCHANGED vapiRest

\* the 'error' handler
VapiError ==
  /\ vapi.mounted
  /\ vapi.call \in {"starting", "live"}
  /\ vapi' = [vapi EXCEPT !.call = "none", !.error = TRUE, !.callStatus = "error",
                          !.isSpeaking = FALSE, !.recordingState = "inactive",
                          !.averageVolumeLevel = 0]
  /\ UNCHANGED vapiRest

\* the mount effect's cleanup
VapiUnmount ==
  /\ vapi.mounted
  /\ vapi' = VapiUnmounted
  /\ UNCHANGED vapiRest

NextVapi ==
  \/ VapiMount
  \/ ToggleVapiCall
  \/ StartRejected
  \/ CallStart
  \/ CallEnd
  \/ SpeechStart
  \/ SpeechEnd
  \/ TranscriptMessage
  \/ VolumeLevel
  \/ VapiError
  \/ VapiUnmount

SpecVapi == Init /\ [][NextVapi]_vars

\* pages/index: isRecording={recordingState === RecordingState.ACTIVE && !isSpeaking}
isRecording == vapi.recordingState = "active" /\ ~vapi.isSpeaking

(***************************************************************************)
(* C29: when a speech-end event arrives while the call is connected        *)
(* (callStatus is CONNECTED), recordingState is ACTIVE after it, whatever  *)
(* the order of the call-start, speech-start and speech-end events since   *)
(* the mount.                                                              *)
(***************************************************************************)
C29_SpeechEndResumesRecording ==
  [][(SpeechEnd /\ vapi.callStatus = "connected")
       => vapi'.recordingState = "active"]_vars

(***************************************************************************)
(* C30: once stopVapiCall() has been accepted, callStatus is INACTIVE      *)
(* until startVapiCall() is invoked again, whatever events of the SDK      *)
(* arrive in between.                                                      *)
(***************************************************************************)
C30_InactiveAfterStop == vapi.stopped => vapi.callStatus = "inactive"

\* a speech-end has arrived on the connected call after a speech-start paused
\* the recording
C29_SpeechEndedWhileConnected ==
  /\ vapi.callStatus = "connected"
  /\ vapi.call = "live"
  /\ ~vapi.isSpeaking
  /\ vapi.recordingState = "paused"

\* a stop was accepted while the call was connecting
C30_StoppedWhileConnecting ==
  /\ vapi.stopped
  /\ vapi.isStoppingRef
  /\ vapi.call = "starting"

====
